---- MODULE Spec2Model ----
(***************************************************************************)
(* Verification model of the session / workspace / plan-executor core.     *)
(*                                                                         *)
(*   PlanSpec : MainController._execute_plan and its caller                *)
(*              execute_task_in_workspace (src/main_controller.py).        *)
(*   ParseSpec: MainController._extract_tool_calls and _parse_tool_call    *)
(*              applied to texts.                                          *)
(*   Spec     : tools/terminal.py - the Workspace registry and the         *)
(*              module-level workspace.                                    *)
(*   RunSpec  : tools/terminal.py - one ManagedTerminal session in full.   *)
(*                                                                         *)
(* External collaborators (the planner, the tool handlers, the child       *)
(* shell process and the clock) are the environment: their answers are     *)
(* drawn nondeterministically from small sets.                             *)
(***************************************************************************)
EXTENDS Naturals, Sequences, FiniteSets, TLC

VARIABLES
    \* ---- MainController._execute_plan --------------------------------
    plan_pc,            \* position of the controller thread
    plan,               \* the planner's text
    tool_calls,         \* observer: start_index and end_index of each extracted call
    warnings,           \* observer: start_index of each unmatched-parenthesis warning
    original_steps,     \* result of _extract_tool_calls(plan)
    current_steps,      \* list(original_steps)
    step_index,         \* 0-based index into current_steps
    step_number,        \* len(execution_history) + 1 at the start of a step
    step_succeeded,
    step_retry_count,
    task_string,        \* call text of the next attempt
    parsed_tool,        \* result of _parse_tool_call(task_string)
    raw_error,          \* error of the last failed attempt
    remediation_prompt, \* failed step and error message of the last request
    execution_history,  \* appended entries
    attempts,           \* observer: attempts made per plan position
    handler_calls,      \* observer: tool handler invocations per plan position
    succeeded_at,       \* observer: plan positions with a successful attempt
    planner_calls,      \* observer: remediation requests sent to the planner
    raw_result,         \* what the handler of the last attempt did
    corrected_step_raw, \* the planner's last answer to a remediation request
    dead_session_seen,  \* observer: a handler found its session not live
    events,             \* observer: statuses, parses, handler and planner calls
    last_status         \* last message passed to _update_status

text_vars == <<plan, tool_calls, warnings>>

plan_vars == <<plan_pc, text_vars, original_steps, current_steps, step_index,
               step_number, step_succeeded, step_retry_count, task_string,
               parsed_tool, raw_error, remediation_prompt, execution_history,
               attempts, handler_calls, succeeded_at, planner_calls, last_status,
               raw_result, corrected_step_raw, dead_session_seen, events>>

\* ---- tools/terminal.py ----------------------------------------------
VARIABLES
    _WORKSPACE_INSTANCE, \* 0 is None, else the identity of the Workspace object
    workspaces,         \* number of Workspace objects constructed so far
    terminals,          \* Workspace.terminals of the active instance: name -> session
    owner,              \* per session: its name and the Workspace that made it
    is_running,         \* ManagedTerminal.is_running
    process,            \* "alive" (poll() is None) or "exited"
    output_queue,       \* ManagedTerminal.output_queue
    stdin,              \* commands written to the child's stdin, in order
    readers,            \* streams whose _read_output thread is still looping
    closes,             \* observer: close() calls, termination attempts, messages
    ret,                \* value returned by the last finished operation
    pc,                 \* position of the calling thread
    cur,                \* session, name and command of the call in progress
    output_lines,       \* local of run_command
    idle,               \* queue.get timeouts since last_output_time was set
    elapsed             \* queue.get timeouts since the run began (saturating)

ws_vars == <<_WORKSPACE_INSTANCE, workspaces, terminals, owner, is_running,
             process, output_queue, stdin, readers, closes, ret>>
call_vars == <<pc, cur, output_lines, idle, elapsed>>

\* ---- ui.py ---------------------------------------------------------
VARIABLES
    is_thinking,        \* ChatWindow.is_thinking
    response_received,  \* emitted response_received signals not yet delivered
    threads             \* the task threads started by process_user_query

ui_vars == <<is_thinking, response_received, threads>>

\* ---- tools/file_system.py -----------------------------------------------
VARIABLES
    base_directory,     \* Workspace.base_directory, an absolute path
    file_path,          \* argument of write_file
    directories,        \* directories that exist
    files,              \* files that exist
    write_file_result   \* what write_file returned

fs_vars == <<base_directory, file_path, directories, files, write_file_result>>

\* ---- MainController._extract_tool_calls ---------------------------------
VARIABLES
    scan_cursor         \* cursor of _extract_tool_calls: 1 + its Python value

scan_vars == <<scan_cursor>>

\* ---- MainController.execute_project --------------------------------------
VARIABLES
    proj_pc,            \* position of the thread in execute_project
    plan_steps,         \* number of components of the high-level plan
    component,          \* i of the component loop (0-based)
    attempt,            \* attempt of the inner loop
    is_component_valid,
    full_code,          \* the accepted script
    refined_code,       \* the candidate of the last attempt
    syntax_result,      \* what the syntax check of the last attempt returned
    main_py,            \* content of main.py in the workspace
    tried,              \* observer: per component, the results of its syntax checks
    launched,           \* launch_application has been called
    project_result      \* what execute_project returned

proj_vars == <<proj_pc, plan_steps, component, attempt, is_component_valid, full_code,
               refined_code, syntax_result, main_py, tried, launched, project_result>>

aux_vars == <<ui_vars, fs_vars, scan_vars, proj_vars>>

vars == <<plan_vars, ws_vars, call_vars, aux_vars>>

(***************************************************************************)
(* Bounds of the model.                                                    *)
(***************************************************************************)
MaxPlan == 2            \* longest extracted plan

None == "None"

Min(a, b) == IF a <= b THEN a ELSE b

RECURSIVE SeqsUpTo(_, _)
SeqsUpTo(S, n) ==
    IF n = 0 THEN {<<>>}
    ELSE LET shorter == SeqsUpTo(S, n - 1)
         IN  shorter \cup {Append(q, x) : q \in {r \in shorter : Len(r) = n - 1}, x \in S}

(***************************************************************************)
(* Texts.  A text is a sequence of atoms: a punctuation character, a blank,  *)
(* a newline, or a word written as one atom.  Every character of a word    *)
(* atom is a \w character; no word atom has a recognised tool name as a     *)
(* proper part, and none but "n" starts with the letter n.                  *)
(***************************************************************************)
DQ == "\""
SQ == "'"
BS == "\\"
NL == "\n"
SpaceAtoms == {" ", NL}
NonWordAtoms == SpaceAtoms \cup {"(", ")", "=", ",", "-", "<backtick>", DQ, SQ, BS}
IsWord(c) == c \notin NonWordAtoms
IsSpace(c) == c \in SpaceAtoms

MinOf(S) == CHOOSE x \in S : \A y \in S : x <= y

\* Python slice text[from:to], by the positions from .. to - 1 of the sequence.
Slice(text, from, to) == SubSeq(text, from, to - 1)

\* "".join(atoms)
RECURSIVE Join(_)
Join(atoms) == IF atoms = <<>> THEN "" ELSE Head(atoms) \o Join(Tail(atoms))

RECURSIVE Concat(_)
Concat(texts) == IF texts = <<>> THEN <<>> ELSE Head(texts) \o Concat(Tail(texts))

\* str.strip()
RECURSIVE LStrip(_)
LStrip(text) ==
    IF text # <<>> /\ IsSpace(Head(text)) THEN LStrip(Tail(text)) ELSE text
RECURSIVE RStrip(_)
RStrip(text) ==
    IF text # <<>> /\ IsSpace(text[Len(text)])
    THEN RStrip(SubSeq(text, 1, Len(text) - 1)) ELSE text
Strip(text) == RStrip(LStrip(text))

\* str.replace(old, new) for a two-character old and a one-character new.
RECURSIVE Replace(_, _, _)
Replace(text, old, new) ==
    IF Len(text) < 2 THEN text
    ELSE IF SubSeq(text, 1, 2) = old
    THEN <<new>> \o Replace(SubSeq(text, 3, Len(text)), old, new)
    ELSE <<Head(text)>> \o Replace(Tail(text), old, new)

\* The end of the greedy \w+ that begins at i: the first position that holds
\* no word character.
WordRunEnd(text, i) ==
    LET stops == {j \in i..Len(text) : ~IsWord(text[j])}
    IN  IF stops = {} THEN Len(text) + 1 ELSE MinOf(stops)

\* The end of \s* from position i.
SkipSpace(text, i) ==
    LET stops == {j \in i..Len(text) : ~IsSpace(text[j])}
    IN  IF stops = {} THEN Len(text) + 1 ELSE MinOf(stops)

(***************************************************************************)
(* MainController._parse_tool_call                                         *)
(***************************************************************************)
\* Variant of MatchingParen: the first ')' ends the body, nesting is ignored.
RECURSIVE MatchingParenFlat(_, _, _)
MatchingParenFlat(text, i, open_paren_count) ==
    IF i > Len(text) THEN 0
    ELSE IF text[i] = ")" THEN i
    ELSE MatchingParenFlat(text, i + 1, open_paren_count)

\* Lines 36-41: the scan from the first '(' that counts parentheses; the
\* position at which the count is back at zero, 0 when it never is (the
\* code's last_paren_index of -1).
RECURSIVE MatchingParen(_, _, _)
MatchingParen(text, i, open_paren_count) ==
    IF i > Len(text) THEN 0
    ELSE LET count == IF text[i] = "(" THEN open_paren_count + 1
                      ELSE IF text[i] = ")" THEN open_paren_count - 1
                      ELSE open_paren_count
         IN  IF count = 0 THEN i ELSE MatchingParen(text, i + 1, count)

\* The first position m >= from at which n quote characters q stand in a row,
\* 0 if there is none: where the lazy (.*?) of a quoted value stops.
ClosingQuote(text, from, q, n) ==
    LET at == {m \in from..(Len(text) - n + 1) :
                  \A k \in 0..(n - 1) : text[m + k] = q}
    IN  IF at = {} THEN 0 ELSE MinOf(at)

\* One alternative of the value group: n quote characters q, the shortest
\* content, n quote characters q.
Quoted(text, i, q, n) ==
    IF i + n - 1 <= Len(text) /\ \A k \in 0..(n - 1) : text[i + k] = q
    THEN LET m == ClosingQuote(text, i + n, q, n)
         IN  IF m = 0 THEN [ok |-> FALSE]
             ELSE [ok |-> TRUE, value |-> Slice(text, i + n, m), end |-> m + n]
    ELSE [ok |-> FALSE]

\* arg_pattern (line 49) matched at position i:
\*   (\w+)\s*=\s*("""(.*?)"""|'''(.*?)'''|"(.*?)"|'(.*?)')   with re.DOTALL
ArgMatchAt(text, i) ==
    IF i > Len(text) \/ ~IsWord(text[i]) THEN [ok |-> FALSE]
    ELSE LET j  == WordRunEnd(text, i)
             eq == SkipSpace(text, j)
         IN  IF eq > Len(text) \/ text[eq] # "=" THEN [ok |-> FALSE]
             ELSE LET v  == SkipSpace(text, eq + 1)
                      t3 == Quoted(text, v, DQ, 3)
                      s3 == Quoted(text, v, SQ, 3)
                      t1 == Quoted(text, v, DQ, 1)
                      s1 == Quoted(text, v, SQ, 1)
                      m  == IF t3.ok THEN t3 ELSE IF s3.ok THEN s3
                            ELSE IF t1.ok THEN t1 ELSE s1
                  IN  IF m.ok
                      THEN [ok |-> TRUE, key |-> Join(Slice(text, i, j)),
                            value |-> m.value, end |-> m.end]
                      ELSE [ok |-> FALSE]

\* Line 58: the three replacements, in the code's order.
Unescape(value) ==
    Replace(Replace(Replace(value, <<BS, "n">>, NL), <<BS, DQ>>, DQ), <<BS, SQ>>, SQ)

\* Lines 50-59: the loop over arg_pattern.finditer(args_str); last_index is the
\* position after the previous match, where the search for the next goes on.
RECURSIVE ParseArgs(_, _, _)
ParseArgs(args_str, last_index, args) ==
    LET starts == {i \in last_index..Len(args_str) : ArgMatchAt(args_str, i).ok}
    IN  IF starts = {} THEN [error |-> None, args |-> args]
        ELSE LET start    == MinOf(starts)
                 match    == ArgMatchAt(args_str, start)
                 unparsed == Strip(Slice(args_str, last_index, start))
             IN  IF start > last_index /\ unparsed # <<>> /\ unparsed # <<",">>
                 THEN [error |-> "Could not parse argument segment", args |-> <<>>]
                 ELSE ParseArgs(args_str, match.end,
                                (match.key :> Unescape(match.value)) @@ args)

\* Lines 43-45: args_str, the stripped text between the first '(' and the
\* position MatchingParen found.
ArgsStr(text, first_paren_index, last_paren_index) ==
    Strip(Slice(text, first_paren_index + 1, last_paren_index))

\* _parse_tool_call, lines 25-61.
_parse_tool_call(text) ==
    LET name_end == WordRunEnd(text, 1)
    IN  IF name_end = 1 \/ name_end > Len(text) \/ text[name_end] # "("
        THEN [error |-> "Could not parse tool name", name |-> None, args |-> <<>>]
        ELSE LET tool_name == Join(Slice(text, 1, name_end))
                 first_paren_index == name_end
                 last_paren_index == MatchingParen(text, first_paren_index, 0)
             IN  IF last_paren_index = 0
                 THEN [error |-> "Mismatched parentheses", name |-> None, args |-> <<>>]
                 ELSE LET parsed == ParseArgs(ArgsStr(text, first_paren_index,
                                                      last_paren_index), 1, <<>>)
                      IN  IF parsed.error # None
                          THEN [error |-> parsed.error, name |-> None, args |-> <<>>]
                          ELSE [error |-> None, name |-> tool_name, args |-> parsed.args]

(***************************************************************************)
(* MainController._extract_tool_calls                                      *)
(***************************************************************************)
\* tool_pattern, line 257.
ToolPatternNames ==
    {"run_command", "write_file", "create_headless_terminal", "start_server",
     "launch_application"}

\* re.search(tool_pattern, plan[cursor:]): the first position at or after
\* cursor where a recognised name is followed by '(', 0 if there is none.
SearchTool(text, cursor) ==
    LET at == {i \in cursor..(Len(text) - 1) :
                  text[i] \in ToolPatternNames /\ text[i + 1] = "("}
    IN  IF at = {} THEN 0 ELSE MinOf(at)

\* Variant of ScanCall: an inner '(' does not raise the level.
RECURSIVE ScanCallFlat(_, _, _)
ScanCallFlat(text, i, paren_level) ==
    IF i <= Len(text) /\ paren_level > 0
    THEN ScanCallFlat(text, i + 1,
                      IF text[i] = ")" THEN paren_level - 1 ELSE paren_level)
    ELSE [i |-> i, paren_level |-> paren_level]

\* Lines 268-271: the inner loop.
RECURSIVE ScanCall(_, _, _)
ScanCall(text, i, paren_level) ==
    IF i <= Len(text) /\ paren_level > 0
    THEN ScanCall(text, i + 1,
                  IF text[i] = "(" THEN paren_level + 1
                  ELSE IF text[i] = ")" THEN paren_level - 1
                  ELSE paren_level)
    ELSE [i |-> i, paren_level |-> paren_level]

\* Variant of CursorAfterCall: the scan goes on inside the call just extracted.
CursorAfterCallInside(open_paren_index, end_index) == open_paren_index + 1

\* Line 275: cursor = end_index.
CursorAfterCall(open_paren_index, end_index) == end_index

\* Variant of CursorAfterUnmatched: the scan gives up at an unmatched '('.
CursorAfterUnmatchedGiveUp(text, open_paren_index) == Len(text) + 1

\* Variant of CursorAfterUnmatched: the scan resumes at the unmatched '('.
CursorAfterUnmatchedStay(text, open_paren_index) == open_paren_index - 1

\* Line 278: cursor = open_paren_index + 1.
CursorAfterUnmatched(text, open_paren_index) == open_paren_index + 1

\* Lines 261-278: the outer loop.  calls: the spans appended so far, each from
\* start_index up to, not including, end_index; warnings: the start_index of
\* every occurrence a warning was emitted for.
RECURSIVE ExtractLoop(_, _, _, _)
ExtractLoop(text, cursor, calls, warned) ==
    IF cursor > Len(text) THEN [calls |-> calls, warnings |-> warned]
    ELSE LET start_index == SearchTool(text, cursor)
         IN  IF start_index = 0 THEN [calls |-> calls, warnings |-> warned]
             ELSE LET open_paren_index == start_index + 1
                      scan == ScanCall(text, open_paren_index + 1, 1)
                  IN  IF scan.paren_level = 0
                      THEN ExtractLoop(text, CursorAfterCall(open_paren_index, scan.i),
                                       Append(calls, [start_index |-> start_index,
                                                      end_index |-> scan.i]),
                                       warned)
                      ELSE ExtractLoop(text, CursorAfterUnmatched(text, open_paren_index),
                                       calls, Append(warned, start_index))

\* _extract_tool_calls, lines 255-279: the substrings plan[start_index:end_index].
_extract_tool_calls(text) ==
    LET spans == ExtractLoop(text, 1, <<>>, <<>>).calls
    IN  [k \in 1..Len(spans) |-> Slice(text, spans[k].start_index, spans[k].end_index)]

(***************************************************************************)
(* MainController._execute_plan                                           *)
(***************************************************************************)
\* main_controller.py:294
max_retries == 3

\* Names the dispatch chain of _execute_plan knows (lines 321-337).
DispatchNames ==
    {"write_file", "run_command", "create_headless_terminal", "start_server",
     "launch_application"}

\* A call text: name(key="value").
CallText(name, key, value) == <<name, "(", key, "=", DQ, value, DQ, ")">>

\* main_controller.py:89: the command that creates the virtual environment,
\* one character per element.
VenvCommand ==
    <<"p", "y", "t", "h", "o", "n", " ", "-", "m", " ", "v", "e", "n", "v", " ",
      "v", "e", "n", "v">>

\* Call texts of the planner's plans: a recognised name and a balanced
\* argument list.
ExtractedCalls ==
    {<<"run_command", "(", "command", "=", DQ>> \o VenvCommand \o <<DQ, ")">>,
     CallText("create_headless_terminal", "name", "build")}

\* The planner's text for a plan of the given calls: a line of prose before
\* each call.
RECURSIVE PlanText(_)
PlanText(steps) ==
    IF steps = <<>> THEN <<>>
    ELSE <<"then", " ">> \o Head(steps) \o <<NL>> \o PlanText(Tail(steps))

\* Texts of handler results, one character per element.
LowerCase ==
    <<"a", "b", "c", "d", "e", "f", "g", "h", "i", "j", "k", "l", "m",
      "n", "o", "p", "q", "r", "s", "t", "u", "v", "w", "x", "y", "z">>
UpperCase ==
    <<"A", "B", "C", "D", "E", "F", "G", "H", "I", "J", "K", "L", "M",
      "N", "O", "P", "Q", "R", "S", "T", "U", "V", "W", "X", "Y", "Z">>

\* str.upper(), character by character.
Upper(c) ==
    IF \E i \in DOMAIN LowerCase : LowerCase[i] = c
    THEN UpperCase[CHOOSE i \in DOMAIN LowerCase : LowerCase[i] = c]
    ELSE c
UpperText(text) == [i \in 1..Len(text) |-> Upper(text[i])]

\* str.lower(), character by character.
Lower(c) ==
    IF \E i \in DOMAIN UpperCase : UpperCase[i] = c
    THEN LowerCase[CHOOSE i \in DOMAIN UpperCase : UpperCase[i] = c]
    ELSE c
LowerText(text) == [i \in 1..Len(text) |-> Lower(text[i])]

\* needle in text
Contains(text, needle) ==
    \E i \in 1..Len(text) :
       /\ i + Len(needle) <= Len(text) + 1
       /\ SubSeq(text, i, i + Len(needle) - 1) = needle

FailureMarker == <<"E", "R", "R", "O", "R", ":">>

\* Results of the tool handlers: the empty text, "Error: x", and "error",
\* which lacks the colon.
ErrorMixedText == <<"E", "r", "r", "o", "r", ":", " ", "x">>
NoColonText == <<"e", "r", "r", "o", "r">>
\* terminal.py:52, 96 and 98
NotRunningText ==
    <<"E", "R", "R", "O", "R", ":", " ", "T", "e", "r", "m", "i", "n", "a", "l", " ",
      "i", "s", " ", "n", "o", "t", " ", "r", "u", "n", "n", "i", "n", "g", ".">>
DuplicateNameText ==
    <<"E", "r", "r", "o", "r", ":", " ", "A", " ", "t", "e", "r", "m", "i", "n", "a",
      "l", " ", "w", "i", "t", "h", " ", "t", "h", "e", " ", "n", "a", "m", "e", " ",
      "a", "l", "r", "e", "a", "d", "y", " ", "e", "x", "i", "s", "t", "s", ".">>
CreatedText ==
    <<"T", "e", "r", "m", "i", "n", "a", "l", " ", "c", "r", "e", "a", "t", "e", "d",
      " ", "s", "u", "c", "c", "e", "s", "s", "f", "u", "l", "l", "y", ".">>

\* What a tool handler can do: return a text, or raise.
HandlerResults == {<<>>, NoColonText, ErrorMixedText}
HandlerOutcomes ==
    [raised : {FALSE}, text : HandlerResults] \cup {[raised |-> TRUE, text |-> <<>>]}
NoResult == [raised |-> FALSE, text |-> <<>>]

\* Variant of HasFailureMarker: the text is searched as it is.
HasFailureMarkerCaseSensitive(result) ==
    result # <<>> /\ Contains(result, FailureMarker)

\* raw_result and "ERROR:" in str(raw_result).upper()   (line 341)
HasFailureMarker(result) ==
    result # <<>> /\ Contains(UpperText(result), FailureMarker)

\* Variant of AppendHistory: the list is assigned, not appended to.
AssignHistory(history, entry) == <<entry>>

\* execution_history.append(...)   (line 346)
AppendHistory(history, entry) == Append(history, entry)

\* Variant of StatusBefore: a retry is not announced.
StatusBeforeFirstOnly(retry_count) ==
    IF retry_count > 0 THEN <<>> ELSE <<"status: Executing Step">>

\* The status emitted before an attempt (lines 304-307).
StatusBefore(retry_count) ==
    IF retry_count > 0 THEN <<"status: Re-executing Step">>
                       ELSE <<"status: Executing Step">>

\* The code-fence marker of markdown: three backticks, each one atom.
BT == "<backtick>"
Fence == <<BT, BT, BT>>

StartsWith(text, prefix) ==
    Len(text) >= Len(prefix) /\ SubSeq(text, 1, Len(prefix)) = prefix
EndsWith(text, suffix) ==
    Len(text) >= Len(suffix)
    /\ SubSeq(text, Len(text) + 1 - Len(suffix), Len(text)) = suffix

\* re.sub of an opening fence and the rest of its line by ""   (line 393): '.' matches no newline, '^' only
\* the start of the text.
StripOpeningFence(text) ==
    LET newlines == {i \in (Len(Fence) + 1)..Len(text) : text[i] = NL}
    IN  IF StartsWith(text, Fence) /\ newlines # {}
        THEN SubSeq(text, MinOf(newlines) + 1, Len(text))
        ELSE text

\* re.sub of a closing fence by ""   (line 394): '$' matches at the end of the text
\* and before a newline that ends it.
StripClosingFence(text) ==
    IF EndsWith(text, Fence)
    THEN SubSeq(text, 1, Len(text) - Len(Fence))
    ELSE IF EndsWith(text, Fence \o <<NL>>)
    THEN SubSeq(text, 1, Len(text) - Len(Fence) - 1) \o <<NL>>
    ELSE text

\* Lines 389-394: strip, the two substitutions, strip.
Sanitize(corrected_step_raw_text) ==
    Strip(StripClosingFence(StripOpeningFence(Strip(corrected_step_raw_text))))

\* The planner's answers to a remediation request as it sends them: a
\* corrected call; a call of a tool the dispatch chain does not know, in a
\* fenced block with a language tag, after a blank and before a final
\* newline; a call that never closes its parenthesis; an empty answer; and
\* the corrected call between two fences on one line.
PlannerAnswers ==
    {CallText("launch_application", "command", "app"),
     <<" ">> \o Fence \o <<"python", NL>> \o CallText("frobnicate", "x", "1")
         \o <<NL>> \o Fence \o <<NL>>,
     <<"run_command", "(", "ls">>,
     <<>>,
     Fence \o CallText("launch_application", "command", "app") \o Fence}

\* Variant of NextTaskString: the failed text is kept.
NextTaskStringKeepsFailed(failed_step, corrected_step) == failed_step

\* task_string = corrected_step   (line 400)
NextTaskString(failed_step, corrected_step) == corrected_step

\* Variant of DispatchError: a name the chain does not know is let through.
DispatchErrorUnknownPasses(parsed) ==
    IF parsed.name = "write_file"
       /\ ~({"file_path", "content"} \subseteq DOMAIN parsed.args)
    THEN "Missing 'file_path' or 'content'"
    ELSE IF parsed.name = "run_command" /\ "command" \notin DOMAIN parsed.args
         THEN "Missing 'command'"
    ELSE None

\* The pre-invocation checks of the dispatch chain (lines 321-339): the error
\* raised before any handler is called, or None.
DispatchError(parsed) ==
    IF parsed.name \notin DispatchNames THEN "Unknown tool"
    ELSE IF parsed.name = "write_file"
            /\ ~({"file_path", "content"} \subseteq DOMAIN parsed.args)
         THEN "Missing 'file_path' or 'content'"
    ELSE IF parsed.name = "run_command" /\ "command" \notin DOMAIN parsed.args
         THEN "Missing 'command'"
    ELSE None

(***************************************************************************)
(* tools/system_commands.py                                                *)
(***************************************************************************)
\* system_commands.py:47
forbidden_commands ==
    {<<"c", "m", "d">>, <<"p", "o", "w", "e", "r", "s", "h", "e", "l", "l">>,
     <<"b", "a", "s", "h">>, <<"s", "h">>, <<"z", "s", "h">>,
     <<"p", "y", "t", "h", "o", "n">>}

\* command.strip().lower().split()[0]   (line 48)
command_start(command) ==
    LET text   == LowerText(Strip(command))
        spaces == {i \in 1..Len(text) : IsSpace(text[i])}
    IN  IF spaces = {} THEN text ELSE SubSeq(text, 1, MinOf(spaces) - 1)

(***************************************************************************)
(* tools/terminal.py                                                       *)
(***************************************************************************)
MaxSessions == 2        \* ManagedTerminal objects constructed in one behaviour
MaxWorkspaces == 2      \* Workspace objects constructed in one behaviour
MaxWrites == 2          \* commands sent in one behaviour
MaxQueue == 3           \* lines the child lets pile up unread in the queue
MaxOut == 3             \* lines of one run's result
MaxCloseCalls == 2      \* close() calls counted per session
MaxClock == 5           \* the elapsed-time observer saturates here
OuterTimeout == 3       \* an outer timeout for a run, in seconds: run_command of
                        \* terminal.py takes none, so any value stands for it

\* terminal.py:60  queue.get(timeout=1.0)
GetTimeout == 1
\* terminal.py:64  time.time() - last_output_time > 2.0
IdleWindow == 2

TerminalNames == {"default", "build"}
Commands == {"echo hi", "echo again"}
\* The caller's commands to a session in the order they are sent: n commands
\* were sent to it before.
Script(n) == IF n = 0 THEN "echo hi" ELSE "echo again"
\* The line a command makes the shell print.
OutputOf(command) == IF command = "echo hi" THEN "hi" ELSE "again"
Streams == {"stdout", "stderr"}

\* A line the shell may print that has the form of a completion sentinel.
SentinelLine == "__DONE__"
Range(q) == {q[i] : i \in 1..Len(q)}

\* Variant of ChildLines: the shell prints the output of commands it was never sent.
ChildLinesUncaused(written) ==
    {OutputOf(c) : c \in Commands} \cup {SentinelLine}

\* Lines pipe.readline() can return: output of a command that was written to
\* the shell's stdin, at any later time, or a line of the shell's own.
ChildLines(written) ==
    {OutputOf(c) : c \in Range(written)} \cup {SentinelLine}

EchoLine(command) == "> " \o command
StartedLine == "Terminal started"
ClosedLine == "Terminal closed."
SystemLine == "[SYSTEM] Command finished after 2.0s of inactivity."
RunOps == {"run_command", "start_background_process"}
UnknownName == "Error: No terminal with the name found."
UnknownNameText ==
    <<"E", "r", "r", "o", "r", ":", " ", "N", "o", " ", "t", "e", "r", "m", "i", "n",
      "a", "l", " ", "w", "i", "t", "h", " ", "t", "h", "e", " ", "n", "a", "m", "e",
      " ", "f", "o", "u", "n", "d", ".">>
DuplicateName == "Error: A terminal with the name already exists."
NotRunning == "ERROR: Terminal is not running."
Raised == "<raise>"

Sessions == DOMAIN is_running

\* The state the functions of terminal.py read and write, as one record.
State ==
    [inst |-> _WORKSPACE_INSTANCE, workspaces |-> workspaces, terminals |-> terminals,
     owner |-> owner, is_running |-> is_running, process |-> process,
     output_queue |-> output_queue, stdin |-> stdin, readers |-> readers,
     closes |-> closes, ret |-> ret]

Commit(W) ==
    /\ _WORKSPACE_INSTANCE' = W.inst
    /\ workspaces' = W.workspaces
    /\ terminals' = W.terminals
    /\ owner' = W.owner
    /\ is_running' = W.is_running
    /\ process' = W.process
    /\ output_queue' = W.output_queue
    /\ stdin' = W.stdin
    /\ readers' = W.readers
    /\ closes' = W.closes
    /\ ret' = W.ret

\* The value an operation returns.
Return(W, op, name, sid, result, lines) ==
    [W EXCEPT !.ret = [seq |-> W.ret.seq, op |-> op, name |-> name, sid |-> sid,
                       result |-> result, lines |-> lines, exclude |-> {}]]

\* An operation of the calling thread has returned: seq tells one return from
\* the next.
Done(W) == [W EXCEPT !.ret.seq = 1 - ret.seq]

\* ManagedTerminal.log, lines 47-49.
log(W, s, message) ==
    [W EXCEPT !.output_queue[s] = Append(@, message)]

\* ManagedTerminal.__init__ and _start_process, lines 16-37: a new process, its
\* start message, two reader threads.
ManagedTerminal(W, name) ==
    LET s == Cardinality(DOMAIN W.is_running) + 1
    IN  log([W EXCEPT !.owner = @ @@ (s :> [name |-> name, ws |-> W.inst]),
                      !.is_running = @ @@ (s :> TRUE),
                      !.process = @ @@ (s :> "alive"),
                      !.output_queue = @ @@ (s :> <<>>),
                      !.stdin = @ @@ (s :> <<>>),
                      !.readers = @ @@ (s :> Streams),
                      !.closes = @ @@ (s :> [calls |-> 0, terminations |-> 0,
                                             messages |-> 0])],
            s, StartedLine)

\* Variant of close: no is_running guard, every call terminates again.
closeUnguarded(W, s, killed) ==
    log([W EXCEPT !.is_running[s] = FALSE,
                  !.process[s] = IF killed THEN "exited" ELSE @,
                  !.closes[s] = [calls |-> Min(@.calls + 1, MaxCloseCalls),
                                 terminations |-> @.terminations + 1,
                                 messages |-> @.messages + 1]],
        s, ClosedLine)

\* ManagedTerminal.close, lines 77-85.  killed: whether the termination attempt
\* ended the process (a failure is caught and printed, line 84).
close(W, s, killed) ==
    IF W.is_running[s]
    THEN log([W EXCEPT !.is_running[s] = FALSE,
                       !.process[s] = IF killed THEN "exited" ELSE @,
                       !.closes[s] = [calls |-> Min(@.calls + 1, MaxCloseCalls),
                                      terminations |-> @.terminations + 1,
                                      messages |-> @.messages + 1]],
             s, ClosedLine)
    ELSE [W EXCEPT !.closes[s].calls = Min(@ + 1, MaxCloseCalls)]

\* Variant of create_terminal: the duplicate-name check is missing.
create_terminalNoCheck(W, name) ==
    LET s  == Cardinality(DOMAIN W.is_running) + 1
        W1 == ManagedTerminal(W, name)
        W2 == [W1 EXCEPT !.terminals =
                  [n \in DOMAIN W1.terminals \cup {name} |->
                      IF n = name THEN s ELSE W1.terminals[n]]]
    IN  Return(W2, "create_terminal", name, s, "created", <<>>)

\* Workspace.create_terminal, lines 95-98.
create_terminal(W, name) ==
    IF name \in DOMAIN W.terminals
    THEN Return(W, "create_terminal", name, W.terminals[name],
                DuplicateName, <<>>)
    ELSE LET s  == Cardinality(DOMAIN W.is_running) + 1
             W1 == ManagedTerminal(W, name)
             W2 == [W1 EXCEPT !.terminals = @ @@ (name :> s)]
         IN  Return(W2, "create_terminal", name, s, "created", <<>>)

\* Workspace.__init__, lines 88-93.
Workspace(W) ==
    create_terminal([W EXCEPT !.inst = W.workspaces + 1,
                              !.workspaces = @ + 1,
                              !.terminals = <<>>],
                    "default")

\* The loop of Workspace.close_all, lines 110-116, over the names still to visit.
RECURSIVE close_each(_, _, _, _)
close_each(W, names, exclude, survivors) ==
    IF names = {} THEN W
    ELSE LET name == CHOOSE n \in names : TRUE
             s    == W.terminals[name]
             W1   == IF name \in exclude THEN W
                     ELSE LET closed == close(W, s, s \notin survivors)
                          IN  [closed EXCEPT !.terminals =
                                  [n \in DOMAIN closed.terminals \ {name} |->
                                      closed.terminals[n]]]
         IN  close_each(W1, names \ {name}, exclude, survivors)

\* Variant of close_all: the exclude list is ignored.
close_allIgnoringExclude(W, exclude, survivors) ==
    close_each(W, DOMAIN W.terminals, {}, survivors)

\* Workspace.close_all, lines 108-117.
close_all(W, exclude, survivors) ==
    close_each(W, DOMAIN W.terminals, exclude, survivors)

\* close_workspace, lines 131-135.
close_workspace(W, exclude, survivors) ==
    IF W.inst # 0
    THEN LET W1 == close_all(W, exclude, survivors)
         IN  IF DOMAIN W1.terminals = {} THEN [W1 EXCEPT !.inst = 0] ELSE W1
    ELSE W

\* Variant of initialize_workspace: the prior workspace is not closed.
initialize_workspaceNoClose(W, survivors) ==
    Workspace(W)

\* initialize_workspace, lines 120-125.
initialize_workspace(W, survivors) ==
    Workspace(IF W.inst # 0 THEN close_workspace(W, {}, survivors) ELSE W)

\* get_workspace, lines 127-129.
get_workspace(W) ==
    IF W.inst = 0 THEN initialize_workspace(W, {}) ELSE W


\* Nothing constructed yet: the module has just been imported.
EmptyState ==
    [inst |-> 0, workspaces |-> 0, terminals |-> <<>>, owner |-> <<>>,
     is_running |-> <<>>, process |-> <<>>, output_queue |-> <<>>, stdin |-> <<>>,
     readers |-> <<>>, closes |-> <<>>,
     ret |-> [seq |-> 0, op |-> None, name |-> None, sid |-> 0, result |-> None,
              lines |-> <<>>, exclude |-> {}]]

Holds(W) ==
    /\ _WORKSPACE_INSTANCE = W.inst
    /\ workspaces = W.workspaces
    /\ terminals = W.terminals
    /\ owner = W.owner
    /\ is_running = W.is_running
    /\ process = W.process
    /\ output_queue = W.output_queue
    /\ stdin = W.stdin
    /\ readers = W.readers
    /\ closes = W.closes
    /\ ret = W.ret

CallerIdle ==
    /\ pc = "idle"
    /\ cur = [sid |-> 0, name |-> None, command |-> None, op |-> None]
    /\ output_lines = <<>>
    /\ idle = 0
    /\ elapsed = 0

\* The locals of a call are gone once it has returned.
Returned ==
    /\ pc' = "idle"
    /\ cur' = [sid |-> 0, name |-> None, command |-> None, op |-> None]
    /\ output_lines' = <<>>
    /\ idle' = 0
    /\ elapsed' = 0

WsInit == Holds(EmptyState) /\ CallerIdle

\* One workspace with its default terminal: the state initialize_workspace
\* leaves when called first.
RunInit ==
    /\ Holds(Return(initialize_workspace(EmptyState, {}), "initialize_workspace", None,
                    1, "workspace", <<>>))
    /\ CallerIdle

\* Sessions of the registry whose process a termination attempt may fail to end.
Killable(exclude) ==
    {terminals[n] : n \in {m \in DOMAIN terminals : m \notin exclude}}

Fits(W) ==
    /\ Cardinality(DOMAIN W.is_running) <= MaxSessions
    /\ W.workspaces <= MaxWorkspaces

(***************************************************************************)
(* Operations of the calling thread.                                       *)
(***************************************************************************)
\* initialize_workspace(base_directory), lines 120-125.
InitializeWorkspace ==
    /\ pc = "idle"
    /\ \E survivors \in SUBSET Killable({}) :
          LET W == initialize_workspace(State, survivors)
          IN  /\ Fits(W)
              /\ Commit(Done(Return(W, "initialize_workspace", None,
                                    W.terminals["default"], "workspace", <<>>)))
    /\ UNCHANGED <<call_vars, plan_vars, aux_vars>>

\* close_workspace(exclude), lines 131-135.
CloseWorkspace ==
    /\ pc = "idle"
    /\ \E exclude \in SUBSET TerminalNames :
       \E survivors \in SUBSET Killable(exclude) :
          LET W == close_workspace(State, exclude, survivors)
          IN  Commit(Done([W EXCEPT !.ret = [seq |-> 0, op |-> "close_workspace",
                                             name |-> None, sid |-> 0, result |-> None,
                                             lines |-> <<>>, exclude |-> exclude]]))
    /\ UNCHANGED <<call_vars, plan_vars, aux_vars>>

\* create_headless_terminal(name), lines 152-154.
CreateHeadlessTerminal ==
    /\ pc = "idle"
    /\ \E name \in TerminalNames :
          LET W == create_terminal(get_workspace(State), name)
          IN  /\ Fits(W)
              /\ Commit(Done(W))
    /\ UNCHANGED <<call_vars, plan_vars, aux_vars>>

\* ManagedTerminal.close() through a reference the caller kept.
TerminalClose ==
    /\ pc = "idle"
    /\ \E s \in Sessions, killed \in BOOLEAN :
          /\ killed \/ process[s] = "alive"
          /\ Commit(Done(Return(close(State, s, killed), "close", owner[s].name, s,
                                None, <<>>)))
    /\ UNCHANGED <<call_vars, plan_vars, aux_vars>>

\* The liveness check that opens run_command (line 52) and
\* start_background_process (line 70).
NotLive(W, s) == ~W.is_running[s] \/ W.process[s] # "alive"

\* Variant of Delegate: an unregistered name falls back to the default terminal.
DelegateFallback(W, op, command, name) ==
    LET n == IF name \in DOMAIN W.terminals THEN name ELSE "default"
    IN  IF n \notin DOMAIN W.terminals
        THEN [W |-> Return(W, op, name, 0, UnknownName, <<>>),
              sid |-> 0]
        ELSE IF NotLive(W, W.terminals[n])
        THEN [W |-> Return(W, op, name, W.terminals[n], NotRunning, <<>>), sid |-> 0]
        ELSE [W |-> W, sid |-> W.terminals[n]]

\* Workspace.run_in_terminal (lines 100-102) and start_process_in_terminal
\* (lines 104-106) up to the session's liveness check: the state and, when the
\* call goes on, the session it goes on in (0: the call has returned).
Delegate(W, op, command, name) ==
    IF name \notin DOMAIN W.terminals
    THEN [W |-> Return(W, op, name, 0, UnknownName, <<>>),
          sid |-> 0]
    ELSE IF NotLive(W, W.terminals[name])
    THEN [W |-> Return(W, op, name, W.terminals[name], NotRunning, <<>>), sid |-> 0]
    ELSE [W |-> W, sid |-> W.terminals[name]]

\* Number of commands written so far to the sessions of S.
RECURSIVE Written(_, _)
Written(in, S) ==
    IF S = {} THEN 0
    ELSE LET s == CHOOSE x \in S : TRUE
         IN  Len(in[s]) + Written(in, S \ {s})

\* The command the caller sends next to the terminal of that name.
NextCommand(name) ==
    IF name \in DOMAIN terminals THEN Script(Len(stdin[terminals[name]]))
    ELSE Script(0)

Call(op, command, name) ==
    LET d == Delegate(get_workspace(State), op, command, name)
    IN  /\ Fits(d.W)
        /\ d.sid # 0 => Written(d.W.stdin, DOMAIN d.W.stdin) < MaxWrites
        /\ Commit(IF d.sid = 0 THEN Done(d.W) ELSE d.W)
        /\ IF d.sid = 0
           THEN UNCHANGED call_vars
           ELSE /\ pc' = "checked"
                /\ cur' = [sid |-> d.sid, name |-> name, command |-> command, op |-> op]
                /\ UNCHANGED <<output_lines, idle, elapsed>>

\* run_command_in_terminal(command, terminal_name), lines 156-158.
RunCommandInTerminal ==
    /\ pc = "idle"
    /\ \E command \in Commands, name \in TerminalNames :
          /\ command = NextCommand(name)
          /\ Call("run_command", command, name)
    /\ UNCHANGED <<plan_vars, aux_vars>>

\* start_server_in_terminal(command, terminal_name), lines 160-162.
StartServerInTerminal ==
    /\ pc = "idle"
    /\ \E command \in Commands, name \in TerminalNames :
          /\ command = NextCommand(name)
          /\ Call("start_background_process", command, name)
    /\ UNCHANGED <<plan_vars, aux_vars>>

\* stdin.write and flush (lines 55-56, 72-73): a process that has exited since
\* the liveness check makes the write raise (broken pipe).
WriteStdin(W, s, command) ==
    IF W.process[s] = "alive"
    THEN [W EXCEPT !.stdin[s] = Append(@, command)]
    ELSE Done(Return(W, cur.op, owner[s].name, s, Raised, <<>>))

\* Variant of RunCommandWrite: the queue is not emptied first.
RunCommandWriteNoDrain ==
    /\ pc = "checked"
    /\ cur.op = "run_command"
    /\ LET s  == cur.sid
           W2 == log(State, s, EchoLine(cur.command))
       IN  /\ Commit(WriteStdin(W2, s, cur.command))
           /\ IF process[s] = "alive"
              THEN /\ pc' = "collect"
                   /\ output_lines' = <<>>
                   /\ idle' = 0
                   /\ elapsed' = 0
                   /\ UNCHANGED cur
              ELSE Returned
    /\ UNCHANGED <<plan_vars, aux_vars>>

\* run_command, lines 53-57: drain the queue, echo, write.
RunCommandWrite ==
    /\ pc = "checked"
    /\ cur.op = "run_command"
    /\ LET s  == cur.sid
           W1 == [State EXCEPT !.output_queue[s] = <<>>]
           W2 == log(W1, s, EchoLine(cur.command))
       IN  /\ Commit(WriteStdin(W2, s, cur.command))
           /\ IF process[s] = "alive"
              THEN /\ pc' = "collect"
                   /\ output_lines' = <<>>
                   /\ idle' = 0
                   /\ elapsed' = 0
                   /\ UNCHANGED cur
              ELSE Returned
    /\ UNCHANGED <<plan_vars, aux_vars>>

\* Variant of StartBackgroundWrite: the queue is emptied as run_command does.
StartBackgroundWriteDraining ==
    /\ pc = "checked"
    /\ cur.op = "start_background_process"
    /\ LET s  == cur.sid
           W1 == log([State EXCEPT !.output_queue[s] = <<>>], s, EchoLine(cur.command))
       IN  /\ Commit(WriteStdin(W1, s, cur.command))
           /\ IF process[s] = "alive"
              THEN /\ pc' = "sleep"
                   /\ UNCHANGED <<cur, output_lines, idle, elapsed>>
              ELSE Returned
    /\ UNCHANGED <<plan_vars, aux_vars>>

\* start_background_process, lines 71-74: echo, write, then sleep.
StartBackgroundWrite ==
    /\ pc = "checked"
    /\ cur.op = "start_background_process"
    /\ LET s  == cur.sid
           W1 == log(State, s, EchoLine(cur.command))
       IN  /\ Commit(WriteStdin(W1, s, cur.command))
           /\ IF process[s] = "alive"
              THEN /\ pc' = "sleep"
                   /\ UNCHANGED <<cur, output_lines, idle, elapsed>>
              ELSE Returned
    /\ UNCHANGED <<plan_vars, aux_vars>>

\* start_background_process, lines 74-75: the sleep is over.
StartBackgroundReturn ==
    /\ pc = "sleep"
    /\ Commit(Done(Return(State, cur.op, owner[cur.sid].name, cur.sid, "sent", <<>>)))
    /\ Returned
    /\ UNCHANGED <<plan_vars, aux_vars>>

\* Variant of RunGetLine: a sentinel line ends the run at once.
RunGetLineSentinel ==
    /\ pc = "collect"
    /\ output_queue[cur.sid] # <<>>
    /\ LET line == Head(output_queue[cur.sid])
           W1   == [State EXCEPT !.output_queue[cur.sid] = Tail(@)]
       IN  IF line = SentinelLine
           THEN /\ Commit(Done(Return(W1, cur.op, owner[cur.sid].name, cur.sid,
                                      "output", output_lines)))
                /\ Returned
           ELSE /\ Commit(W1)
                /\ output_lines' = Append(output_lines, line)
                /\ idle' = 0
                /\ UNCHANGED <<pc, cur, elapsed>>
    /\ UNCHANGED <<plan_vars, aux_vars>>

\* run_command, lines 60-62: queue.get returned a line.
RunGetLine ==
    /\ pc = "collect"
    /\ output_queue[cur.sid] # <<>>
    /\ output_lines' = Append(output_lines, Head(output_queue[cur.sid]))
    /\ Commit([State EXCEPT !.output_queue[cur.sid] = Tail(@)])
    /\ idle' = 0
    /\ UNCHANGED <<pc, cur, elapsed, plan_vars, aux_vars>>

\* Variant of IdleElapsed: the run waits for the outer timeout.
IdleElapsedOuter(n, late) == n * GetTimeout > OuterTimeout

\* time.time() - last_output_time > 2.0 after n queue.get timeouts with nothing
\* received (line 64); late: the clock read is past the nominal n * 1.0 s.
IdleElapsed(n, late) ==
    \/ n * GetTimeout > IdleWindow
    \/ n * GetTimeout = IdleWindow /\ late

\* run_command, lines 63-67: queue.get timed out on an empty queue.
RunQueueEmpty ==
    /\ pc = "collect"
    /\ output_queue[cur.sid] = <<>>
    /\ \E late \in BOOLEAN :
          IF IdleElapsed(idle + 1, late)
          THEN /\ Commit(Done(Return(log(State, cur.sid, SystemLine), cur.op,
                                     owner[cur.sid].name, cur.sid, "output",
                                     output_lines)))
               /\ Returned
          ELSE /\ idle' = idle + 1
               /\ elapsed' = Min(elapsed + 1, MaxClock)
               /\ UNCHANGED <<ws_vars, pc, cur, output_lines>>
    /\ UNCHANGED <<plan_vars, aux_vars>>

(***************************************************************************)
(* The child process and the reader threads.                               *)
(***************************************************************************)
\* _read_output, lines 39-45: readline returned a line; it is logged, and the
\* loop goes on while is_running.
ReadOutput ==
    \E s \in Sessions, stream \in Streams :
    \E line \in ChildLines(stdin[s]) :
       /\ stream \in readers[s]
       /\ Len(output_queue[s]) < MaxQueue
       /\ (pc = "collect" /\ cur.sid = s) =>
             Len(output_lines) + Len(output_queue[s]) < MaxOut
       /\ LET W1 == log(State, s, line)
          IN  Commit(IF is_running[s] THEN W1
                     ELSE [W1 EXCEPT !.readers[s] = @ \ {stream}])
       /\ UNCHANGED <<call_vars, plan_vars, aux_vars>>

\* _read_output, line 44: readline returned "" (end of file) after the process
\* ended.
ReadEOF ==
    \E s \in Sessions, stream \in Streams :
       /\ stream \in readers[s]
       /\ process[s] = "exited"
       /\ readers' = [readers EXCEPT ![s] = @ \ {stream}]
       /\ UNCHANGED <<_WORKSPACE_INSTANCE, workspaces, terminals, owner, is_running,
                      process, output_queue, stdin, closes, ret, call_vars, plan_vars, aux_vars>>

\* The shell exits on its own (an exit command, a crash).
ProcessExit ==
    \E s \in Sessions :
       /\ process[s] = "alive"
       /\ process' = [process EXCEPT ![s] = "exited"]
       /\ UNCHANGED <<_WORKSPACE_INSTANCE, workspaces, terminals, owner, is_running,
                      output_queue, stdin, readers, closes, ret, call_vars, plan_vars, aux_vars>>

(***************************************************************************)
(* MainController.execute_task_in_workspace and _execute_plan: the steps   *)
(* of the controller thread.                                               *)
(***************************************************************************)
PlanLocals ==
    /\ tool_calls = <<>>
    /\ warnings = <<>>
    /\ original_steps = <<>>
    /\ current_steps = <<>>
    /\ step_index = 0
    /\ step_number = 0
    /\ step_succeeded = FALSE
    /\ step_retry_count = 0
    /\ task_string = None
    /\ parsed_tool = [error |-> None, name |-> None, args |-> <<>>]
    /\ raw_result = NoResult
    /\ raw_error = None
    /\ remediation_prompt = [failed_step |-> <<>>, error_message |-> None]
    /\ corrected_step_raw = <<>>
    /\ execution_history = <<>>
    /\ attempts = <<>>
    /\ handler_calls = <<>>
    /\ succeeded_at = {}
    /\ planner_calls = 0
    /\ dead_session_seen = FALSE
    /\ events = <<>>
    /\ last_status = None

\* Planner texts without an executable step: prose with a call of a tool the
\* pattern does not name, and a call that never closes its parenthesis.
NoStepPlans ==
    {<<"then", " ">> \o CallText("frobnicate", "x", "1") \o <<NL>>,
     <<"then", " ", "start_server", "(", "command", "=", DQ, "x", DQ, NL>>}

\* Variant of NoSteps: the check is missing.
NoStepsUnchecked(steps) == FALSE

\* if not original_steps   (line 288)
NoSteps(steps) == steps = <<>>

PlanInit ==
    /\ plan_pc = "task"
    /\ plan \in {PlanText(steps) : steps \in SeqsUpTo(ExtractedCalls, MaxPlan)}
                   \cup NoStepPlans
    /\ PlanLocals

\* execute_task_in_workspace, lines 205-212: the workspace is re-initialized
\* before the try block is entered.
ExecuteTaskInWorkspace ==
    /\ plan_pc = "task"
    /\ \E survivors \in SUBSET Killable({}) :
          Commit(initialize_workspace(State, survivors))
    /\ last_status' = "Re-opened Workspace"
    /\ events' = Append(events, "status: Re-opened Workspace")
    /\ plan_pc' = "start"
    /\ UNCHANGED <<text_vars, original_steps, current_steps, step_index, step_number,
                   step_succeeded, step_retry_count, task_string, parsed_tool,
                   raw_result, raw_error, remediation_prompt, corrected_step_raw,
                   execution_history, attempts, handler_calls, succeeded_at,
                   planner_calls, dead_session_seen, call_vars, aux_vars>>

\* execute_task_in_workspace, lines 239-241, and _execute_plan, lines 285-294:
\* the plan is cut into its calls; a plan without calls raises.
ExecutePlanBegin ==
    /\ plan_pc = "start"
    /\ UNCHANGED <<ws_vars, call_vars, aux_vars>>
    /\ LET scan  == ExtractLoop(plan, 1, <<>>, <<>>)
           steps == _extract_tool_calls(plan)
       IN  /\ tool_calls' = scan.calls
           /\ warnings' = scan.warnings
           /\ original_steps' = steps
           /\ attempts' = [i \in 1..Len(steps) |-> 0]
           /\ handler_calls' = [i \in 1..Len(steps) |-> 0]
           /\ last_status' = IF scan.warnings # <<>>
                             THEN "Warning: Could not find matching parenthesis"
                             ELSE "Parsing execution plan"
           /\ events' = events \o <<"status: Generating follow-up plan", "planner",
                                    "status: Parsing execution plan", "extract">>
           /\ IF NoSteps(steps)
              THEN /\ plan_pc' = "raised"
                   /\ raw_error' = "Planner returned a plan with no executable steps."
                   /\ UNCHANGED current_steps
              ELSE /\ plan_pc' = "outer"
                   /\ current_steps' = steps
                   /\ UNCHANGED raw_error
    /\ UNCHANGED <<plan, step_index, step_number, step_succeeded, step_retry_count,
                   task_string, parsed_tool, raw_result, remediation_prompt,
                   corrected_step_raw, execution_history, succeeded_at,
                   planner_calls, dead_session_seen>>

\* Lines 303 (loop exit) and 404-405: whatever ended the retry loop, the
\* executor moves to the next plan position.
AfterRetryLoop ==
    /\ step_index' = step_index + 1
    /\ plan_pc' = "outer"
    /\ UNCHANGED raw_error

\* Lines 296-301: the head of the outer loop.
OuterLoop ==
    /\ plan_pc = "outer"
    /\ UNCHANGED <<ws_vars, call_vars, aux_vars>>
    /\ IF step_index < Len(current_steps)
       THEN /\ task_string' = current_steps[step_index + 1]
            /\ step_number' = Len(execution_history) + 1
            /\ step_succeeded' = FALSE
            /\ step_retry_count' = 0
            /\ plan_pc' = "inner"
       ELSE /\ plan_pc' = "returned"
            /\ UNCHANGED <<task_string, step_number, step_succeeded, step_retry_count>>
    /\ UNCHANGED <<text_vars, original_steps, current_steps, step_index, raw_error,
                   parsed_tool, raw_result, remediation_prompt, corrected_step_raw,
                   execution_history, attempts, handler_calls, succeeded_at,
                   planner_calls, dead_session_seen, events, last_status>>

\* Lines 303-307: the head of the retry loop and the status before an attempt.
InnerLoop ==
    /\ plan_pc = "inner"
    /\ UNCHANGED <<ws_vars, call_vars, aux_vars>>
    /\ IF ~step_succeeded /\ step_retry_count < max_retries
       THEN /\ last_status' = IF step_retry_count > 0 THEN "Re-executing Step"
                                                     ELSE "Executing Step"
            /\ events' = events \o StatusBefore(step_retry_count)
            /\ plan_pc' = "attempt"
            /\ UNCHANGED <<step_index, raw_error>>
       ELSE /\ AfterRetryLoop
            /\ UNCHANGED <<last_status, events>>
    /\ UNCHANGED <<text_vars, original_steps, current_steps, step_number,
                   step_succeeded, step_retry_count, task_string, parsed_tool,
                   raw_result, remediation_prompt, corrected_step_raw,
                   execution_history, attempts, handler_calls, succeeded_at,
                   planner_calls, dead_session_seen>>

\* The texts of the results of terminal.py (lines 52, 96, 98, 101).
ResultText(result) ==
    IF result = NotRunning THEN NotRunningText
    ELSE IF result = DuplicateName THEN DuplicateNameText
    ELSE IF result = UnknownName THEN UnknownNameText
    ELSE CreatedText

\* A tool handler (lines 321-337).  run_command goes to the default session of
\* the workspace, whose liveness check (terminal.py:52) answers for a session
\* that is not live and which else writes the command to the session's stdin
\* (terminal.py:55); create_headless_terminal registers a session, and raises
\* when its arguments are not the handler's or the process cannot be spawned.
\* Every other result is the environment's: outcome.
Handler(W, parsed, outcome) ==
    IF parsed.name = "run_command"
    THEN LET W1 == get_workspace(W)
             d  == Delegate(W1, "run_command", parsed.args["command"], "default")
         IN  IF d.sid = 0
             THEN [W |-> W1, dead |-> d.W.ret.result = NotRunning,
                   outcome |-> [raised |-> FALSE, text |-> ResultText(d.W.ret.result)]]
             ELSE [W |-> [W1 EXCEPT !.stdin[d.sid] = Append(@, parsed.args["command"])],
                   dead |-> FALSE, outcome |-> outcome]
    ELSE IF parsed.name = "create_headless_terminal"
    THEN IF DOMAIN parsed.args = {"name"} /\ Join(parsed.args["name"]) \in TerminalNames
         THEN LET W2 == create_terminal(get_workspace(W), Join(parsed.args["name"]))
              IN  IF Fits(W2)
                  THEN [W |-> W2, dead |-> FALSE,
                        outcome |-> [raised |-> FALSE, text |-> ResultText(W2.ret.result)]]
                  ELSE [W |-> W, dead |-> FALSE, outcome |-> [raised |-> TRUE, text |-> <<>>]]
         ELSE [W |-> W, dead |-> FALSE, outcome |-> [raised |-> TRUE, text |-> <<>>]]
    ELSE [W |-> W, dead |-> FALSE, outcome |-> outcome]

\* Lines 309-351: one attempt - parse, dispatch, handler, success criterion.
Attempt ==
    /\ plan_pc = "attempt"
    /\ UNCHANGED <<call_vars, aux_vars>>
    /\ attempts' = [attempts EXCEPT ![step_index + 1] = @ + 1]
    /\ parsed_tool' = _parse_tool_call(task_string)
    /\ LET parsed == parsed_tool'
       IN  IF parsed.error # None \/ DispatchError(parsed) # None
           THEN /\ raw_error' = IF parsed.error # None THEN "Tool parsing failed"
                                ELSE DispatchError(parsed)
                /\ events' = Append(events, "parse")
                /\ plan_pc' = "correct"
                /\ UNCHANGED <<handler_calls, raw_result, dead_session_seen,
                               execution_history, step_succeeded, succeeded_at,
                               last_status, ws_vars>>
           ELSE \E outcome \in HandlerOutcomes :
                LET h == Handler(State, parsed, outcome)
                IN  /\ Commit(h.W)
                    /\ handler_calls' = [handler_calls EXCEPT ![step_index + 1] = @ + 1]
                    /\ raw_result' = h.outcome
                    /\ dead_session_seen' = (dead_session_seen \/ h.dead)
                    /\ IF h.outcome.raised \/ HasFailureMarker(h.outcome.text)
                       THEN /\ raw_error' = IF h.outcome.raised THEN "<raise>"
                                            ELSE "Exception(raw_result)"
                            /\ events' = events \o <<"parse", "handler">>
                            /\ plan_pc' = "correct"
                            /\ UNCHANGED <<execution_history, step_succeeded,
                                           succeeded_at, last_status>>
                       ELSE /\ last_status' = "Step Succeeded"
                            /\ events' = events \o <<"parse", "handler",
                                                     "status: Step Succeeded">>
                            /\ execution_history' =
                                  AppendHistory(execution_history,
                                                [step |-> step_number,
                                                 call |-> task_string,
                                                 result |-> h.outcome.text])
                            /\ step_succeeded' = TRUE
                            /\ succeeded_at' = succeeded_at \cup {step_index + 1}
                            /\ plan_pc' = "inner"
                            /\ UNCHANGED raw_error
    /\ UNCHANGED <<text_vars, original_steps, current_steps, step_index, step_number,
                   step_retry_count, task_string, remediation_prompt,
                   corrected_step_raw, planner_calls>>

\* Variant of HasCorrectedStep: an empty answer is taken as a step.
HasCorrectedStepAlways(corrected_step) == TRUE

\* if corrected_step   (line 398)
HasCorrectedStep(corrected_step) == corrected_step # <<>>

\* Lines 353-402: the correction logic after a failed attempt.
Correct ==
    /\ plan_pc = "correct"
    /\ UNCHANGED <<call_vars, aux_vars>>
    /\ Commit(get_workspace(State))
    /\ step_retry_count' = step_retry_count + 1
    /\ planner_calls' = planner_calls + 1
    /\ remediation_prompt' = [failed_step |-> task_string, error_message |-> raw_error]
    /\ \E answer \in PlannerAnswers :
          LET corrected_step == Sanitize(answer)
          IN  /\ corrected_step_raw' = answer
              /\ IF HasCorrectedStep(corrected_step)
                 THEN /\ last_status' = "Received corrected step"
                      /\ events' = events \o <<"status: Attempting self-correction",
                                               "get_workspace", "planner",
                                               "status: Received corrected step">>
                      /\ task_string' = NextTaskString(task_string, corrected_step)
                      /\ plan_pc' = "inner"
                      /\ UNCHANGED raw_error
                 ELSE /\ last_status' = "Attempting self-correction"
                      /\ events' = events \o <<"status: Attempting self-correction",
                                               "get_workspace", "planner">>
                      /\ raw_error' = "Debugger failed to provide a corrected step. Aborting."
                      /\ plan_pc' = "raised"
                      /\ UNCHANGED task_string
    /\ UNCHANGED <<text_vars, original_steps, current_steps, step_index, step_number,
                   step_succeeded, parsed_tool, raw_result, execution_history,
                   attempts, handler_calls, succeeded_at, dead_session_seen>>

\* execute_task_in_workspace, lines 241-250: the status after _execute_plan
\* returned or raised, then the finally clause.
TaskCompleted ==
    /\ plan_pc = "returned"
    /\ UNCHANGED <<ws_vars, call_vars, aux_vars>>
    /\ last_status' = "Follow-up Task Completed Successfully"
    /\ events' = Append(events, "status: Follow-up Task Completed Successfully")
    /\ plan_pc' = "finally"
    /\ UNCHANGED <<text_vars, original_steps, current_steps, step_index, step_number,
                   step_succeeded, step_retry_count, task_string, parsed_tool,
                   raw_result, raw_error, remediation_prompt, corrected_step_raw,
                   execution_history, attempts, handler_calls, succeeded_at,
                   planner_calls, dead_session_seen>>

TaskFatal ==
    /\ plan_pc = "raised"
    /\ UNCHANGED <<ws_vars, call_vars, aux_vars>>
    /\ last_status' = "FATAL ERROR in follow-up task"
    /\ events' = Append(events, "status: FATAL ERROR in follow-up task")
    /\ plan_pc' = "finally_fatal"
    /\ UNCHANGED <<text_vars, original_steps, current_steps, step_index, step_number,
                   step_succeeded, step_retry_count, task_string, parsed_tool,
                   raw_result, raw_error, remediation_prompt, corrected_step_raw,
                   execution_history, attempts, handler_calls, succeeded_at,
                   planner_calls, dead_session_seen>>

\* Variant of TaskFinally: the default terminal is kept.
TaskFinallyKeepingDefault ==
    /\ plan_pc \in {"finally", "finally_fatal"}
    /\ UNCHANGED <<call_vars, aux_vars>>
    /\ \E survivors \in SUBSET Killable({"default"}) :
          Commit(close_workspace(State, {"default"}, survivors))
    /\ last_status' = "Closing workspace"
    /\ events' = events \o <<"status: Closing workspace", "close_workspace">>
    /\ plan_pc' = IF plan_pc = "finally" THEN "done" ELSE "done_fatal"
    /\ UNCHANGED <<text_vars, original_steps, current_steps, step_index, step_number,
                   step_succeeded, step_retry_count, task_string, parsed_tool,
                   raw_result, raw_error, remediation_prompt, corrected_step_raw,
                   execution_history, attempts, handler_calls, succeeded_at,
                   planner_calls, dead_session_seen>>

\* Lines 248-250: the finally clause closes the workspace.
TaskFinally ==
    /\ plan_pc \in {"finally", "finally_fatal"}
    /\ UNCHANGED <<call_vars, aux_vars>>
    /\ \E survivors \in SUBSET Killable({}) :
          Commit(close_workspace(State, {}, survivors))
    /\ last_status' = "Closing workspace"
    /\ events' = events \o <<"status: Closing workspace", "close_workspace">>
    /\ plan_pc' = IF plan_pc = "finally" THEN "done" ELSE "done_fatal"
    /\ UNCHANGED <<text_vars, original_steps, current_steps, step_index, step_number,
                   step_succeeded, step_retry_count, task_string, parsed_tool,
                   raw_result, raw_error, remediation_prompt, corrected_step_raw,
                   execution_history, attempts, handler_calls, succeeded_at,
                   planner_calls, dead_session_seen>>

PlanIdle ==
    /\ plan_pc = "start"
    /\ plan = <<>>
    /\ PlanLocals

(***************************************************************************)
(* tools/file_system.py: write_file and the path functions it calls.  A    *)
(* path is a text, one character per element.                              *)
(***************************************************************************)
MaxDepth == 3           \* components of a file_path argument
MaxFiles == 2           \* files written in one behaviour

Sep == "/"
Dot == <<".">>
DotDot == <<".", ".">>

\* str.split("/")
RECURSIVE SplitPath(_)
SplitPath(text) ==
    LET seps == {i \in 1..Len(text) : text[i] = Sep}
    IN  IF seps = {} THEN <<text>>
        ELSE <<SubSeq(text, 1, MinOf(seps) - 1)>>
                \o SplitPath(SubSeq(text, MinOf(seps) + 1, Len(text)))

\* "/".join(comps)
RECURSIVE JoinPath(_)
JoinPath(comps) ==
    IF comps = <<>> THEN <<>>
    ELSE IF Len(comps) = 1 THEN Head(comps)
    ELSE Head(comps) \o <<Sep>> \o JoinPath(Tail(comps))

\* os.path.join(a, b)
path_join(a, b) ==
    IF StartsWith(b, <<Sep>>) THEN b
    ELSE IF a = <<>> \/ EndsWith(a, <<Sep>>) THEN a \o b
    ELSE a \o <<Sep>> \o b

\* The loop of posixpath.normpath over the components still to visit.
RECURSIVE NormLoop(_, _, _)
NormLoop(comps, new_comps, initial_slashes) ==
    IF comps = <<>> THEN new_comps
    ELSE LET comp == Head(comps)
             next == IF comp \in {<<>>, Dot} THEN new_comps
                     ELSE IF \/ comp # DotDot
                             \/ (initial_slashes = 0 /\ new_comps = <<>>)
                             \/ (new_comps # <<>> /\ new_comps[Len(new_comps)] = DotDot)
                          THEN Append(new_comps, comp)
                     ELSE IF new_comps # <<>>
                          THEN SubSeq(new_comps, 1, Len(new_comps) - 1)
                     ELSE new_comps
         IN  NormLoop(Tail(comps), next, initial_slashes)

\* posixpath.normpath(path)
normpath(path) ==
    IF path = <<>> THEN Dot
    ELSE LET initial_slashes ==
                 IF ~StartsWith(path, <<Sep>>) THEN 0
                 ELSE IF StartsWith(path, <<Sep, Sep>>) /\ ~StartsWith(path, <<Sep, Sep, Sep>>)
                      THEN 2
                 ELSE 1
             joined == JoinPath(NormLoop(SplitPath(path), <<>>, initial_slashes))
             result == [i \in 1..initial_slashes |-> Sep] \o joined
         IN  IF result = <<>> THEN Dot ELSE result

\* os.getcwd() of the application
getcwd == <<Sep, "w">>

\* os.path.abspath(path)
abspath(path) ==
    normpath(IF StartsWith(path, <<Sep>>) THEN path ELSE path_join(getcwd, path))

\* str.rstrip("/")
RECURSIVE RStripSep(_)
RStripSep(text) ==
    IF text # <<>> /\ text[Len(text)] = Sep
    THEN RStripSep(SubSeq(text, 1, Len(text) - 1))
    ELSE text

\* os.path.dirname(path)
dirname(path) ==
    LET seps == {i \in 1..Len(path) : path[i] = Sep}
        head == IF seps = {} THEN <<>>
                ELSE SubSeq(path, 1, CHOOSE i \in seps : \A j \in seps : j <= i)
    IN  IF head # <<>> /\ \E i \in 1..Len(head) : head[i] # Sep
        THEN RStripSep(head)
        ELSE head

\* The directory itself and the directories above it, for a normalised
\* absolute path.
RECURSIVE Ancestors(_)
Ancestors(dir) ==
    IF dirname(dir) = dir THEN {dir}
    ELSE {dir} \cup Ancestors(dirname(dir))

\* absolute_path.startswith(os.path.abspath(workspace.base_directory))  (line 64)
Allowed(absolute_path, base) ==
    StartsWith(absolute_path, abspath(base))

\* The workspace's base directory and the components of the paths the planner
\* asks to write: names, a name that begins with the base directory's name,
\* and the parent component.
BaseDirectory == <<Sep, "w", Sep, "p">>
Components == {DotDot, <<"d">>, <<"f">>, <<"p", "2">>}
FilePaths ==
    {JoinPath(comps) : comps \in SeqsUpTo(Components, MaxDepth)}
       \cup {<<Sep>> \o JoinPath(comps) : comps \in SeqsUpTo(Components, MaxDepth)}

\* write_file(file_path, content), lines 54-72.
WriteFile ==
    /\ Cardinality(files) < MaxFiles
    /\ \E path \in FilePaths :
          LET full_path     == path_join(base_directory, path)
              absolute_path == abspath(full_path)
              parents       == Ancestors(dirname(absolute_path))
          IN  /\ file_path' = path
              /\ IF ~Allowed(absolute_path, base_directory)
                 THEN /\ write_file_result' = "ERROR: outside the allowed workspace"
                      /\ UNCHANGED <<directories, files>>
                 ELSE IF parents \cap files # {}
                 THEN /\ write_file_result' = "ERROR: Failed to write to file"
                      /\ directories' = directories \cup
                            {d \in parents : Ancestors(d) \cap files = {}}
                      /\ UNCHANGED files
                 ELSE IF absolute_path \in directories \cup parents
                 THEN /\ write_file_result' = "ERROR: Failed to write to file"
                      /\ directories' = directories \cup parents
                      /\ UNCHANGED files
                 ELSE /\ write_file_result' = "Successfully wrote"
                      /\ directories' = directories \cup parents
                      /\ files' = files \cup {absolute_path}
    /\ UNCHANGED <<base_directory, plan_vars, ws_vars, call_vars, ui_vars, scan_vars, proj_vars>>

(***************************************************************************)
(* ui.py: ChatWindow.process_user_query, the task threads it starts and    *)
(* the delivery of their response_received signals.                        *)
(***************************************************************************)
MaxThreads == 2         \* task threads started in one behaviour
MaxPending == 2         \* the count of undelivered signals saturates here
MaxRuns == 2            \* run_command_in_terminal calls of one execute_project

Decisions == {"PROJECT", "CHAT"}

\* _update_status, main_controller.py:18-23, and response_received.emit: one
\* more signal waits for the UI thread.
Emit(pending, n) == Min(pending + n, MaxPending)

\* process_user_query, lines 196-212: ignored while is_thinking (line 197),
\* else the flag is set and a thread is started for the classified query.
ProcessUserQuery ==
    /\ ~is_thinking
    /\ Len(threads) < MaxThreads
    /\ \E decision \in Decisions :
          threads' = Append(threads, [task |-> decision, pc |-> "start", sid |-> 0,
                                      runs |-> 0])
    /\ is_thinking' = TRUE
    /\ UNCHANGED <<response_received, plan_vars, ws_vars, call_vars, fs_vars, scan_vars, proj_vars>>

\* on_agent_response, lines 110-113: the slot runs for every delivered signal
\* and clears the flag.
OnAgentResponse ==
    /\ response_received > 0
    /\ response_received' = response_received - 1
    /\ is_thinking' = FALSE
    /\ UNCHANGED <<threads, plan_vars, ws_vars, call_vars, fs_vars, scan_vars, proj_vars>>

\* run_agent_task, lines 215-222: the answer of the chat agent is emitted.
RunAgentTask ==
    \E i \in DOMAIN threads :
       /\ threads[i].task = "CHAT"
       /\ threads[i].pc = "start"
       /\ threads' = [threads EXCEPT ![i].pc = "done"]
       /\ response_received' = Emit(response_received, 1)
       /\ UNCHANGED <<is_thinking, plan_vars, ws_vars, call_vars, fs_vars, scan_vars, proj_vars>>

\* run_controller_task (224-229) and execute_project, main_controller.py:64-77:
\* the first status, then the workspace is initialized.
ControllerInitialize ==
    \E i \in DOMAIN threads :
       /\ threads[i].task = "PROJECT"
       /\ threads[i].pc = "start"
       /\ \E survivors \in SUBSET Killable({}) :
             LET W == initialize_workspace(State, survivors)
             IN  /\ Fits(W)
                 /\ Commit(W)
       /\ threads' = [threads EXCEPT ![i].pc = "setup"]
       /\ response_received' = Emit(response_received, 1)
       /\ UNCHANGED <<is_thinking, plan_vars, call_vars, fs_vars, scan_vars, proj_vars>>

\* execute_project, lines 83-89, 92-94 and 132-162: a status, then
\* run_command_in_terminal on the default terminal of the active workspace, up
\* to the write of the command (terminal.py:156-158, 100-102, 52-56).
ControllerRunBegin ==
    \E i \in DOMAIN threads :
       /\ threads[i].task = "PROJECT"
       /\ threads[i].pc = "setup"
       /\ threads[i].runs < MaxRuns
       /\ LET d == Delegate(get_workspace(State), "run_command", Join(VenvCommand),
                            "default")
          IN  /\ Fits(d.W)
              /\ IF d.sid = 0
                 THEN /\ Commit(d.W)
                      /\ threads' = [threads EXCEPT ![i].runs = @ + 1]
                 ELSE /\ Commit([log([d.W EXCEPT !.output_queue[d.sid] = <<>>], d.sid,
                                     EchoLine(Join(VenvCommand)))
                                   EXCEPT !.stdin[d.sid] = Append(@, Join(VenvCommand))])
                      /\ threads' = [threads EXCEPT ![i].pc = "run", ![i].sid = d.sid,
                                                    ![i].runs = @ + 1]
       /\ response_received' = Emit(response_received, 1)
       /\ UNCHANGED <<is_thinking, plan_vars, call_vars, fs_vars, scan_vars, proj_vars>>

\* ManagedTerminal.run_command, lines 57-67: the thread has taken what the
\* queue held and leaves after the idle window.
ControllerRunEnd ==
    \E i \in DOMAIN threads :
       /\ threads[i].pc = "run"
       /\ Commit(log([State EXCEPT !.output_queue[threads[i].sid] = <<>>],
                     threads[i].sid, SystemLine))
       /\ threads' = [threads EXCEPT ![i].pc = "setup", ![i].sid = 0]
       /\ UNCHANGED <<is_thinking, response_received, plan_vars, call_vars, fs_vars, scan_vars, proj_vars>>

\* execute_project, lines 186-200 (or the except clause, 193-196): the last
\* statuses; the workspace stays open.
ControllerFinish ==
    \E i \in DOMAIN threads :
       /\ threads[i].task = "PROJECT"
       /\ threads[i].pc = "setup"
       /\ threads[i].runs >= 1
       /\ threads' = [threads EXCEPT ![i].pc = "done"]
       /\ response_received' = Emit(response_received, 2)
       /\ UNCHANGED <<is_thinking, plan_vars, ws_vars, call_vars, fs_vars, scan_vars, proj_vars>>

\* The workspace directory exists (terminal.py:90), nothing was written.
FsInit ==
    /\ base_directory = BaseDirectory
    /\ file_path = <<>>
    /\ directories = Ancestors(BaseDirectory)
    /\ files = {}
    /\ write_file_result = None

\* write_file is not part of the behaviour.
FsIdle ==
    /\ base_directory = <<>>
    /\ file_path = <<>>
    /\ directories = {}
    /\ files = {}
    /\ write_file_result = None

\* No query has been submitted.
UiIdle ==
    /\ is_thinking = FALSE
    /\ response_received = 0
    /\ threads = <<>>

\* _extract_tool_calls is not running.
ScanIdle == scan_cursor = 0

\* execute_project is not running.
ProjIdle ==
    /\ proj_pc = "idle"
    /\ plan_steps = 0
    /\ component = 0
    /\ attempt = 0
    /\ is_component_valid = FALSE
    /\ full_code = None
    /\ refined_code = None
    /\ syntax_result = <<>>
    /\ main_py = None
    /\ tried = <<>>
    /\ launched = FALSE
    /\ project_result = None

AuxIdle == UiIdle /\ FsIdle /\ ScanIdle /\ ProjIdle

Init == WsInit /\ PlanIdle /\ AuxIdle

InitRun == RunInit /\ PlanIdle /\ AuxIdle

InitPlan == PlanInit /\ WsInit /\ AuxIdle

\* The registry and its sessions; the children print nothing.
Next ==
    \/ InitializeWorkspace
    \/ CloseWorkspace
    \/ CreateHeadlessTerminal
    \/ RunCommandInTerminal
    \/ StartServerInTerminal
    \/ RunCommandWrite
    \/ StartBackgroundWrite
    \/ StartBackgroundReturn
    \/ RunGetLine
    \/ RunQueueEmpty
    \/ ProcessExit

Spec == Init /\ [][Next]_vars

\* One session in full: the calling thread, the two readers and the child.
RunNext ==
    \/ RunCommandInTerminal
    \/ StartServerInTerminal
    \/ RunCommandWrite
    \/ StartBackgroundWrite
    \/ StartBackgroundReturn
    \/ RunGetLine
    \/ RunQueueEmpty
    \/ TerminalClose
    \/ ReadOutput
    \/ ReadEOF
    \/ ProcessExit

RunSpec == InitRun /\ [][RunNext]_vars

PlanNext ==
    \/ ExecuteTaskInWorkspace
    \/ ExecutePlanBegin
    \/ OuterLoop
    \/ InnerLoop
    \/ Attempt
    \/ Correct
    \/ TaskCompleted
    \/ TaskFatal
    \/ TaskFinally
    \/ ProcessExit

PlanSpec == InitPlan /\ [][PlanNext]_vars

\* The UI thread and the task threads it starts.
UiNext ==
    \/ ProcessUserQuery
    \/ OnAgentResponse
    \/ RunAgentTask
    \/ ControllerInitialize
    \/ ControllerRunBegin
    \/ ControllerRunEnd
    \/ ControllerFinish
    \/ ProcessExit

UiSpec == Init /\ [][UiNext]_vars

\* write_file called again and again on one open workspace.
InitFile == RunInit /\ PlanIdle /\ UiIdle /\ FsInit /\ ScanIdle /\ ProjIdle

FileNext == WriteFile

FileSpec == InitFile /\ [][FileNext]_vars

(***************************************************************************)
(* _extract_tool_calls and _parse_tool_call applied to texts (ParseSpec).  *)
(***************************************************************************)
MaxPairs == 2           \* key/value pairs of a generated call
MaxBody == 3            \* atoms of a free-form argument body
MaxSegments == 3        \* segments (prose, calls) of a planner text

\* The quoting styles arg_pattern knows (line 49).
QuoteStyles == {"single", "double", "triple_single", "triple_double"}
Keys == {"command", "x"}
\* Values: plain, with balanced parentheses, with a newline, with a quote.
Values == {<<"ls">>, <<"a", "(", "b", ")">>, <<"a", NL, "b">>, <<"a", DQ, "b">>}

QuoteOf(style) == IF style \in {"double", "triple_double"} THEN DQ ELSE SQ
QuoteCount(style) == IF style \in {"triple_single", "triple_double"} THEN 3 ELSE 1

\* A value as a call string carries it: a quote character of the delimiter's
\* kind is escaped; a newline is escaped in the one-line styles and written as
\* it is between triple quotes.
RECURSIVE EscapeValue(_, _)
EscapeValue(value, style) ==
    IF value = <<>> THEN <<>>
    ELSE LET c == Head(value)
             w == IF c = QuoteOf(style) THEN <<BS, c>>
                  ELSE IF c = NL /\ QuoteCount(style) = 1 THEN <<BS, "n">>
                  ELSE <<c>>
         IN  w \o EscapeValue(Tail(value), style)

WriteValue(value, style) ==
    LET q == [k \in 1..QuoteCount(style) |-> QuoteOf(style)]
    IN  q \o EscapeValue(value, style) \o q

RECURSIVE FormatPairs(_)
FormatPairs(pairs) ==
    IF pairs = <<>> THEN <<>>
    ELSE <<Head(pairs).key, "=">> \o WriteValue(Head(pairs).value, Head(pairs).style)
         \o (IF Len(pairs) > 1 THEN <<",", " ">> ELSE <<>>)
         \o FormatPairs(Tail(pairs))

\* The call string for a name and its key/value pairs.
FormatCall(name, pairs) == <<name, "(">> \o FormatPairs(pairs) \o <<")">>

\* Up to MaxPairs pairs with distinct keys, each value in any style.
PairSeqs ==
    {q \in SeqsUpTo([key : Keys, style : QuoteStyles, value : Values], MaxPairs) :
        \A i, j \in 1..Len(q) : i # j => q[i].key # q[j].key}

GeneratedCalls == {FormatCall("run_command", pairs) : pairs \in PairSeqs}

\* Calls with a free-form argument body, with and without the closing ')',
\* and the call run_command(ls -la).
BodyAtoms == {"ls", " ", "-", "(", ")"}
BodyCalls ==
    {<<"run_command", "(">> \o body \o closing :
        body \in SeqsUpTo(BodyAtoms, MaxBody), closing \in {<<>>, <<")">>}}
    \cup {<<"run_command", "(", "ls", " ", "-", "la", ")">>}

\* Segments of a planner text: prose, a call, a call with parentheses in a
\* value, a call that never closes its parenthesis, a call that holds a
\* recognised call in a value, a call of a name the pattern does not know.
SegProse == <<"then", ")", " ">>
SegCall == CallText("run_command", "command", "ls")
SegParens == <<"launch_application", "(", "command", "=", DQ, "a", "(", "b", ")", DQ, ")">>
SegUnmatched == <<"start_server", "(", "command", "=", DQ, "x", DQ, " ">>
SegNested ==
    <<"run_command", "(", "command", "=", DQ, "write_file", "(", "a", ")", DQ, ")">>
SegOther == CallText("frobnicate", "x", "1")
Segments == {SegProse, SegCall, SegParens, SegUnmatched, SegNested, SegOther}
SegmentSeqs == SeqsUpTo(Segments, MaxSegments)
PlannerTexts == {Concat(q) : q \in SegmentSeqs}

ParseTexts == GeneratedCalls \cup BodyCalls \cup PlannerTexts

InitParse ==
    /\ plan_pc = "text"
    /\ plan \in ParseTexts
    /\ PlanLocals
    /\ WsInit
    /\ AuxIdle

\* _extract_tool_calls(plan), lines 255-279.
ExtractToolCalls ==
    /\ plan_pc = "text"
    /\ LET scan == ExtractLoop(plan, 1, <<>>, <<>>)
       IN  /\ tool_calls' = scan.calls
           /\ warnings' = scan.warnings
           /\ last_status' = IF scan.warnings # <<>>
                             THEN "Warning: Could not find matching parenthesis"
                             ELSE last_status
    /\ original_steps' = _extract_tool_calls(plan)
    /\ plan_pc' = "extracted"
    /\ UNCHANGED <<plan, current_steps, step_index, step_number, step_succeeded,
                   step_retry_count, task_string, parsed_tool, raw_error,
                   remediation_prompt, execution_history, attempts, handler_calls,
                   succeeded_at, planner_calls, raw_result, corrected_step_raw,
                   dead_session_seen, events, ws_vars, call_vars, aux_vars>>

\* _parse_tool_call(task_string), lines 25-61, on the whole text or on a call
\* that was extracted from it.
ParseToolCall ==
    /\ plan_pc \in {"text", "extracted"}
    /\ \E text \in IF plan_pc = "text" THEN {plan} ELSE Range(original_steps) :
          /\ task_string' = text
          /\ parsed_tool' = _parse_tool_call(text)
    /\ plan_pc' = "parsed"
    /\ UNCHANGED <<text_vars, original_steps, current_steps, step_index, step_number,
                   step_succeeded, step_retry_count, raw_error, remediation_prompt,
                   execution_history, attempts, handler_calls, succeeded_at,
                   planner_calls, last_status, raw_result, corrected_step_raw,
                   dead_session_seen, events, ws_vars, call_vars, aux_vars>>

ParseNext ==
    \/ ExtractToolCalls
    \/ ParseToolCall

ParseSpec == InitParse /\ [][ParseNext]_vars

\* _extract_tool_calls entered: tool_calls = [], cursor = 0 (lines 259-260).
InitScan ==
    /\ plan_pc = "scan"
    /\ plan \in ParseTexts
    /\ PlanLocals
    /\ WsInit
    /\ UiIdle
    /\ FsIdle
    /\ scan_cursor = 1
    /\ ProjIdle

\* Lines 261-279: one pass of the outer loop, or the return when the loop
\* condition or the search fails.
ExtractIterate ==
    /\ plan_pc = "scan"
    /\ LET start_index == IF scan_cursor > Len(plan) THEN 0 ELSE SearchTool(plan, scan_cursor)
       IN  IF start_index = 0
           THEN /\ plan_pc' = "scanned"
                /\ original_steps' =
                      [k \in 1..Len(tool_calls) |->
                          Slice(plan, tool_calls[k].start_index, tool_calls[k].end_index)]
                /\ UNCHANGED <<scan_cursor, tool_calls, warnings, last_status>>
           ELSE LET open_paren_index == start_index + 1
                    scan == ScanCall(plan, open_paren_index + 1, 1)
                IN  /\ IF scan.paren_level = 0
                       THEN /\ tool_calls' = Append(tool_calls,
                                                    [start_index |-> start_index,
                                                     end_index |-> scan.i])
                            /\ scan_cursor' = CursorAfterCall(open_paren_index, scan.i)
                            /\ UNCHANGED <<warnings, last_status>>
                       ELSE /\ warnings' = Append(warnings, start_index)
                            /\ last_status' = "Warning: Could not find matching parenthesis"
                            /\ scan_cursor' = CursorAfterUnmatched(plan, open_paren_index)
                            /\ UNCHANGED tool_calls
                    /\ UNCHANGED <<plan_pc, original_steps>>
    /\ UNCHANGED <<plan, current_steps, step_index, step_number, step_succeeded,
                   step_retry_count, task_string, parsed_tool, raw_error,
                   remediation_prompt, execution_history, attempts, handler_calls,
                   succeeded_at, planner_calls, raw_result, corrected_step_raw,
                   dead_session_seen, events, ws_vars, call_vars, ui_vars, fs_vars,
                   proj_vars>>

ScanNext == ExtractIterate

\* The thread that runs _extract_tool_calls is never suspended for good.
ScanSpec == InitScan /\ [][ScanNext]_vars /\ WF_vars(ExtractIterate)

(***************************************************************************)
(* MainController.execute_project (ProjectSpec): setup, the component loop *)
(* with its syntax checks, and the launch.                                 *)
(***************************************************************************)
MaxComponents == 2      \* components of a high-level plan

max_debug_attempts_per_step == 3

\* The script the loop starts from (line 127) and the scripts the refiner
\* answers with.
InitialScript == "script_0"
RefinedScripts == {"script_a", "script_b"}

\* main_controller.py:93, 161: the commands sent to the default terminal, one
\* character per element.
PipCommand ==
    <<".", "/", "v", "e", "n", "v", "/", "b", "i", "n", "/", "p", "y", "t",
      "h", "o", "n", " ", "-", "m", " ", "p", "i", "p", " ", "i", "n", "s",
      "t", "a", "l", "l", " ", "p", "y", "g", "a", "m", "e">>
SyntaxCheckCommand ==
    <<".", "/", "v", "e", "n", "v", "/", "b", "i", "n", "/", "p", "y", "t",
      "h", "o", "n", " ", "-", "m", " ", "p", "y", "_", "c", "o", "m", "p",
      "i", "l", "e", " ", "m", "a", "i", "n", ".", "p", "y">>

\* What py_compile prints: nothing, a syntax error, a traceback.
SyntaxErrorText ==
    <<"S", "y", "n", "t", "a", "x", "E", "r", "r", "o", "r", ":", " ", "i",
      "n", "v", "a", "l", "i", "d", " ", "s", "y", "n", "t", "a", "x">>
TracebackText ==
    <<"T", "r", "a", "c", "e", "b", "a", "c", "k", " ", "(", "m", "o", "s",
      "t", " ", "r", "e", "c", "e", "n", "t", " ", "c", "a", "l", "l", " ",
      "l", "a", "s", "t", ")", ":">>
CompileOutputs == {<<>>, SyntaxErrorText, TracebackText}
CompileOutcomes ==
    [raised : {FALSE}, text : CompileOutputs] \cup {[raised |-> TRUE, text |-> <<>>]}

\* Variant of SyntaxCheckPassed: only the word 'error' is looked for.
SyntaxCheckPassedErrorOnly(result) ==
    ~Contains(LowerText(result), <<"e", "r", "r", "o", "r">>)

\* "error" not in syntax_result.lower() and "traceback" not in
\* syntax_result.lower()   (line 164)
SyntaxCheckPassed(result) ==
    /\ ~Contains(LowerText(result), <<"e", "r", "r", "o", "r">>)
    /\ ~Contains(LowerText(result), <<"t", "r", "a", "c", "e", "b", "a", "c", "k">>)

\* for attempt in range(max_debug_attempts_per_step)   (line 136)
AttemptsLeft(n) == n < max_debug_attempts_per_step

\* terminal.run_command_in_terminal(command) as execute_project calls it.
ProjectRun(W, command, outcome) ==
    Handler(W, [error |-> None, name |-> "run_command", args |-> [command |-> command]],
            outcome)

\* The variables of _execute_plan other than last_status.
plan_rest == <<plan_pc, text_vars, original_steps, current_steps, step_index,
               step_number, step_succeeded, step_retry_count, task_string,
               parsed_tool, raw_error, remediation_prompt, execution_history,
               attempts, handler_calls, succeeded_at, planner_calls, raw_result,
               corrected_step_raw, dead_session_seen, events>>

InitProject ==
    /\ WsInit
    /\ PlanIdle
    /\ UiIdle
    /\ FsIdle
    /\ ScanIdle
    /\ proj_pc = "project"
    /\ plan_steps = 0
    /\ component = 0
    /\ attempt = 0
    /\ is_component_valid = FALSE
    /\ full_code = None
    /\ refined_code = None
    /\ syntax_result = <<>>
    /\ main_py = None
    /\ tried = <<>>
    /\ launched = FALSE
    /\ project_result = None

\* Lines 64-129: the workspace, the virtual environment, the dependencies and
\* the high-level plan; a planner call that raises ends the try block.
ProjectBegin ==
    /\ proj_pc = "project"
    /\ \E survivors \in SUBSET Killable({}), install \in BOOLEAN,
          steps \in 0..MaxComponents, raises \in BOOLEAN :
          LET W1 == initialize_workspace(State, survivors)
              W2 == ProjectRun(W1, VenvCommand, NoResult).W
              W3 == IF install THEN ProjectRun(W2, PipCommand, NoResult).W ELSE W2
          IN  IF raises
              THEN /\ Commit(W1)
                   /\ last_status' = "Analyzing dependencies"
                   /\ proj_pc' = "raised"
                   /\ UNCHANGED <<plan_steps, tried, full_code>>
              ELSE /\ Commit(W3)
                   /\ last_status' = "Plan Created"
                   /\ plan_steps' = steps
                   /\ tried' = [k \in 1..steps |-> <<>>]
                   /\ full_code' = InitialScript
                   /\ proj_pc' = "component"
    /\ UNCHANGED <<component, attempt, is_component_valid, refined_code, syntax_result,
                   main_py, launched, project_result, plan_rest, call_vars, ui_vars,
                   fs_vars, scan_vars>>

\* Lines 131-134: the head of the component loop.
ComponentBegin ==
    /\ proj_pc = "component"
    /\ component < plan_steps
    /\ last_status' = "Working on Component"
    /\ is_component_valid' = FALSE
    /\ attempt' = 0
    /\ proj_pc' = "attempt"
    /\ UNCHANGED <<plan_steps, component, full_code, refined_code, syntax_result, main_py,
                   tried, launched, project_result, plan_rest, ws_vars, call_vars,
                   ui_vars, fs_vars, scan_vars>>

\* Lines 136-179: one attempt - the refiner's candidate is written to main.py
\* and compiled; a clean result makes it the accepted script and leaves the
\* loop.
RefineAttempt ==
    /\ proj_pc = "attempt"
    /\ IF AttemptsLeft(attempt)
       THEN \E candidate \in RefinedScripts, outcome \in CompileOutcomes :
               LET h == ProjectRun(State, SyntaxCheckCommand, outcome)
               IN  /\ Commit(h.W)
                   /\ refined_code' = candidate
                   /\ main_py' = candidate
                   /\ IF h.outcome.raised
                      THEN /\ proj_pc' = "raised"
                           /\ UNCHANGED <<syntax_result, tried, full_code, attempt,
                                          is_component_valid, last_status>>
                      ELSE /\ syntax_result' = h.outcome.text
                           /\ tried' = [tried EXCEPT ![component + 1] =
                                           Append(@, h.outcome.text)]
                           /\ IF SyntaxCheckPassed(h.outcome.text)
                              THEN /\ last_status' = "Component Integrated Successfully"
                                   /\ full_code' = candidate
                                   /\ is_component_valid' = TRUE
                                   /\ proj_pc' = "component_end"
                                   /\ UNCHANGED attempt
                              ELSE /\ last_status' = "Integration failed"
                                   /\ attempt' = attempt + 1
                                   /\ UNCHANGED <<full_code, is_component_valid, proj_pc>>
       ELSE /\ proj_pc' = "component_end"
            /\ UNCHANGED <<refined_code, main_py, syntax_result, tried, full_code, attempt,
                           is_component_valid, last_status, ws_vars>>
    /\ UNCHANGED <<plan_steps, component, launched, project_result, plan_rest, call_vars,
                   ui_vars, fs_vars, scan_vars>>

\* Lines 181-182: a component without a valid attempt raises.
ComponentEnd ==
    /\ proj_pc = "component_end"
    /\ IF ~is_component_valid
       THEN /\ proj_pc' = "raised"
            /\ UNCHANGED component
       ELSE /\ proj_pc' = "component"
            /\ component' = component + 1
    /\ UNCHANGED <<plan_steps, attempt, is_component_valid, full_code, refined_code,
                   syntax_result, main_py, tried, launched, project_result, plan_vars,
                   ws_vars, call_vars, ui_vars, fs_vars, scan_vars>>

\* Lines 185-191: the launch, after the last component.
LaunchApplication ==
    /\ proj_pc = "component"
    /\ component = plan_steps
    /\ Commit(get_workspace(State))
    /\ launched' = TRUE
    /\ last_status' = "Project Completed and Launched Successfully"
    /\ project_result' = "workspace_path"
    /\ proj_pc' = "finally"
    /\ UNCHANGED <<plan_steps, component, attempt, is_component_valid, full_code,
                   refined_code, syntax_result, main_py, tried, plan_rest, call_vars,
                   ui_vars, fs_vars, scan_vars>>

\* Lines 193-196: every exception of the try block is reported and None
\* returned.
ProjectExcept ==
    /\ proj_pc = "raised"
    /\ last_status' = "FATAL ERROR"
    /\ project_result' = None
    /\ proj_pc' = "finally"
    /\ UNCHANGED <<plan_steps, component, attempt, is_component_valid, full_code,
                   refined_code, syntax_result, main_py, tried, launched, plan_rest,
                   ws_vars, call_vars, ui_vars, fs_vars, scan_vars>>

\* Lines 198-200: the finally clause; the workspace stays open.
ProjectFinally ==
    /\ proj_pc = "finally"
    /\ last_status' = "Orchestration complete"
    /\ proj_pc' = "returned"
    /\ UNCHANGED <<plan_steps, component, attempt, is_component_valid, full_code,
                   refined_code, syntax_result, main_py, tried, launched, project_result,
                   plan_rest, ws_vars, call_vars, ui_vars, fs_vars, scan_vars>>

ProjectNext ==
    \/ ProjectBegin
    \/ ComponentBegin
    \/ RefineAttempt
    \/ ComponentEnd
    \/ LaunchApplication
    \/ ProjectExcept
    \/ ProjectFinally
    \/ ProcessExit

ProjectSpec == InitProject /\ [][ProjectNext]_vars

(***************************************************************************)
(* Properties of _execute_plan (PlanSpec).                                 *)
(***************************************************************************)
Positions == DOMAIN attempts

\* C1: a plan position is attempted only after every earlier position has had
\* a successful attempt; a step that used up its attempts without success
\* stops the run.
C1_NoAdvancePastFailedStep ==
    \A i \in Positions :
       attempts[i] > 0 => \A j \in 1..(i - 1) : j \in succeeded_at

\* C2: a step whose every attempt failed gets exactly max_retries attempts and
\* the run then ends in failure: _execute_plan does not return normally and
\* the 'Completed Successfully' status is not emitted.
C2_ExhaustedStepFailsRun ==
    /\ \A i \in Positions : attempts[i] <= max_retries
    /\ (\E i \in Positions : attempts[i] = max_retries /\ i \notin succeeded_at) =>
          /\ plan_pc \notin {"returned", "finally", "done"}
          /\ last_status # "Follow-up Task Completed Successfully"

(***************************************************************************)
(* Properties of the Workspace registry (Spec).                            *)
(***************************************************************************)
ReturnStep(op) == ret'.seq # ret.seq /\ ret'.op = op

\* C3: create_terminal(name) with a registered name returns the duplicate-name
\* error and changes nothing (no process is spawned, the name keeps its
\* session); with an unregistered name it adds exactly that name, mapped to a
\* new running session.  Every registered name maps to the one session made
\* under that name.
C3_CreateTerminal ==
    [][ /\ (ReturnStep("create_terminal") /\ _WORKSPACE_INSTANCE # 0) =>
              LET name == ret'.name
              IN  IF name \in DOMAIN terminals
                  THEN /\ ret'.result = DuplicateName
                       /\ terminals' = terminals
                       /\ DOMAIN is_running' = DOMAIN is_running
                       /\ is_running' = is_running
                       /\ process' = process
                  ELSE /\ ret'.result = "created"
                       /\ DOMAIN terminals' = DOMAIN terminals \cup {name}
                       /\ \A n \in DOMAIN terminals : terminals'[n] = terminals[n]
                       /\ terminals'[name] \notin DOMAIN is_running
                       /\ DOMAIN is_running' = DOMAIN is_running \cup {terminals'[name]}
                       /\ is_running'[terminals'[name]]
                       /\ process'[terminals'[name]] = "alive"
                       /\ \A s \in DOMAIN is_running : is_running'[s] = is_running[s]
        /\ \A n \in DOMAIN terminals' :
              /\ owner'[terminals'[n]].name = n
              /\ \A m \in DOMAIN terminals' : terminals'[m] = terminals'[n] => m = n
      ]_vars

C3_Witness ==
    /\ ret.op = "create_terminal"
    /\ ret.result = DuplicateName
    /\ DOMAIN terminals = {"default", "build"}
    /\ Cardinality(Sessions) = 2

\* C4 (as claimed): a call with a registered name delivers the command to that
\* session.
C4_RegisteredNameDelivers ==
    (ret.op \in RunOps /\ ret.sid # 0) =>
        /\ ret.result \notin {NotRunning, Raised}
        /\ stdin[ret.sid] # <<>>

\* C4 (amended): run_in_terminal and start_process_in_terminal with an
\* unregistered name return the unknown-session error, write to no session and
\* leave the registry alone; with a registered name the call goes on in the
\* session registered under that name and in no other: that session returns its
\* not-running error when it is not live, and a write to stdin appends the
\* command to that session's stdin alone.
C4_DelegatesToNamedSession ==
    [][ /\ (pc = "idle" /\ ret'.seq # ret.seq /\ ret'.op \in RunOps
               /\ _WORKSPACE_INSTANCE # 0) =>
              /\ stdin' = stdin
              /\ terminals' = terminals
              /\ output_queue' = output_queue
              /\ IF ret'.name \notin DOMAIN terminals
                 THEN ret'.result = UnknownName
                 ELSE /\ ret'.result = NotRunning
                      /\ ret'.sid = terminals[ret'.name]
                      /\ NotLive(State, terminals[ret'.name])
        /\ (pc = "idle" /\ pc' = "checked") =>
              /\ cur'.name \in DOMAIN terminals'
              /\ cur'.sid = terminals'[cur'.name]
              /\ \A s \in DOMAIN stdin' :
                    stdin'[s] = IF s \in DOMAIN stdin THEN stdin[s] ELSE <<>>
        /\ (\E s \in DOMAIN stdin : stdin'[s] # stdin[s]) =>
              /\ pc = "checked"
              /\ cur.name \in DOMAIN terminals /\ terminals[cur.name] = cur.sid
              /\ stdin' = [stdin EXCEPT ![cur.sid] = Append(@, cur.command)]
      ]_vars

C4_Witness ==
    /\ ret.op = "run_command"
    /\ ret.result = "output"
    /\ DOMAIN terminals = {"default", "build"}
    /\ stdin[terminals["build"]] = <<"echo hi">>
    /\ stdin[terminals["default"]] = <<>>

\* C5: when close_all(exclude) returns, every session whose name is not in
\* exclude has been closed and removed from the registry, and every session
\* whose name is in exclude is still registered and was not closed.
C5_CloseAll ==
    [][ (ReturnStep("close_workspace") /\ _WORKSPACE_INSTANCE # 0) =>
           /\ DOMAIN terminals' = DOMAIN terminals \cap ret'.exclude
           /\ \A n \in DOMAIN terminals :
                 LET s == terminals[n]
                 IN  IF n \in ret'.exclude
                     THEN /\ terminals'[n] = s
                          /\ is_running'[s] = is_running[s]
                          /\ closes'[s] = closes[s]
                          /\ output_queue'[s] = output_queue[s]
                     ELSE /\ ~is_running'[s]
                          /\ closes'[s].calls = closes[s].calls + 1
      ]_vars

C5_Witness ==
    /\ ret.op = "close_workspace"
    /\ ret.exclude = {"build"}
    /\ DOMAIN terminals = {"build"}
    /\ is_running[terminals["build"]]
    /\ \E s \in Sessions : owner[s].name = "default" /\ ~is_running[s]

\* C6: at most one Workspace is active: every running session belongs to the
\* active workspace, so no session of a prior workspace is running once
\* initialize_workspace has returned.
C6_SingleActiveWorkspace ==
    \A s \in Sessions :
       is_running[s] => /\ _WORKSPACE_INSTANCE # 0
                        /\ owner[s].ws = _WORKSPACE_INSTANCE

C6_Witness ==
    /\ ret.op = "initialize_workspace"
    /\ _WORKSPACE_INSTANCE = 2
    /\ \E s \in Sessions : owner[s].ws = 1 /\ ~is_running[s] /\ closes[s].terminations = 1
    /\ \E s \in Sessions : owner[s].ws = 2 /\ is_running[s]

(***************************************************************************)
(* Properties of one session (RunSpec).                                    *)
(***************************************************************************)
\* C7: run returns a timeout failure once the outer timeout has elapsed,
\* whatever the child does: a run is never still collecting after that.
C7_RunReturnsByOuterTimeout ==
    pc = "collect" => elapsed * GetTimeout <= OuterTimeout

C9_DeadSessionNeverRaises ==
    ret.op \in RunOps => ret.result # Raised

\* C10: close() is idempotent: the first call marks the session non-running
\* and makes one termination attempt; a later call changes nothing (no second
\* attempt, no further 'Terminal closed.' message); is_running never becomes
\* true again.
C10_CloseIdempotent ==
    [][ \A s \in DOMAIN is_running :
           /\ ~is_running[s] =>
                 /\ ~is_running'[s]
                 /\ closes'[s].terminations = closes[s].terminations
                 /\ closes'[s].messages = closes[s].messages
           /\ (is_running[s] /\ closes'[s].calls # closes[s].calls) =>
                 /\ ~is_running'[s]
                 /\ closes'[s].terminations = closes[s].terminations + 1
                 /\ closes'[s].messages = closes[s].messages + 1
                 /\ output_queue'[s] = Append(output_queue[s], ClosedLine)
           /\ closes[s].terminations <= 1
      ]_vars

C10_Witness ==
    \E s \in Sessions :
       /\ closes[s].calls >= 2
       /\ closes[s].terminations = 1
       /\ ~is_running[s]

IsPrefix(p, q) == Len(p) <= Len(q) /\ \A i \in 1..Len(p) : p[i] = q[i]

\* C11: start_background on a live session writes the command to the process
\* exactly once (at line 72, nowhere else in the call), takes no line out of
\* the session's output queue at any point of the call, and its return after
\* the sleep waits for nothing: it is enabled whatever the child has or has
\* not printed.
C11_StartBackground ==
    [][ /\ (pc = "idle" /\ pc' = "checked" /\ cur'.op = "start_background_process") =>
              \A s \in DOMAIN stdin : stdin'[s] = stdin[s]
        /\ (pc = "checked" /\ cur.op = "start_background_process") =>
              /\ IsPrefix(output_queue[cur.sid], output_queue'[cur.sid])
              /\ process[cur.sid] = "alive" /\ pc' # "checked" =>
                    /\ stdin'[cur.sid] = Append(stdin[cur.sid], cur.command)
                    /\ pc' = "sleep"
        /\ pc = "sleep" =>
              /\ cur.op = "start_background_process"
              /\ stdin' = stdin
              /\ IsPrefix(output_queue[cur.sid], output_queue'[cur.sid])
              /\ ENABLED StartBackgroundReturn
              /\ pc' # "sleep" => /\ ret'.op = "start_background_process"
                                  /\ ret'.result = "sent"
      ]_vars

C11_Witness ==
    /\ ret.op = "start_background_process"
    /\ ret.result = "sent"
    /\ stdin[ret.sid] = <<"echo hi">>
    /\ output_queue[ret.sid] = <<StartedLine, EchoLine("echo hi"), "hi">>

C13_RunDiscardsStaleLines ==
    [][ /\ (pc = "checked" /\ cur.op = "run_command" /\ pc' = "collect") =>
              /\ output_queue'[cur.sid] = <<EchoLine(cur.command)>>
              /\ output_lines' = <<>>
              /\ stdin'[cur.sid] = Append(stdin[cur.sid], cur.command)
        /\ (pc = "collect" /\ output_lines' # output_lines /\ pc' = "collect") =>
              /\ output_queue[cur.sid] # <<>>
              /\ output_lines' = Append(output_lines, Head(output_queue[cur.sid]))
        /\ (pc = "collect" /\ pc' = "idle") =>
              /\ ret'.lines = output_lines
              /\ Head(ret'.lines) = EchoLine(cur.command)
              /\ {StartedLine, SystemLine, ClosedLine} \cap Range(ret'.lines) = {}
      ]_vars

C13_Witness ==
    /\ ret.op = "run_command"
    /\ ret.result = "output"
    /\ stdin[ret.sid] = <<"echo hi", "echo again">>
    /\ ret.lines = <<EchoLine("echo again"), "hi", "again">>
    /\ output_queue[ret.sid] = <<SystemLine>>

(***************************************************************************)
(* Properties of _execute_plan, continued (PlanSpec).                      *)
(***************************************************************************)
\* C20: an attempt whose call text fails to parse, or whose parsed name is not
\* a dispatch name, invokes no tool handler and is a failed attempt; the
\* correction that follows every failed attempt counts it against the step's
\* retry budget and sends the planner a remediation request that carries the
\* failed call text and the error.
C20_ParseAndUnknownToolEscalate ==
    [][ /\ (plan_pc = "attempt" /\ plan_vars' # plan_vars
               /\ (parsed_tool'.error # None \/ parsed_tool'.name \notin DispatchNames)) =>
              /\ handler_calls' = handler_calls
              /\ attempts'[step_index + 1] = attempts[step_index + 1] + 1
              /\ ~step_succeeded'
              /\ succeeded_at' = succeeded_at
              /\ raw_error' = IF parsed_tool'.error # None THEN "Tool parsing failed"
                                                          ELSE "Unknown tool"
              /\ plan_pc' = "correct"
        /\ (plan_pc = "correct" /\ plan_vars' # plan_vars) =>
              /\ step_retry_count' = step_retry_count + 1
              /\ planner_calls' = planner_calls + 1
              /\ remediation_prompt' =
                    [failed_step |-> task_string, error_message |-> raw_error]
      ]_vars

C20_Witness ==
    /\ remediation_prompt = [failed_step |-> <<"run_command", "(", "ls">>,
                             error_message |-> "Tool parsing failed"]
    /\ parsed_tool.error = "Mismatched parentheses"
    /\ step_retry_count = 2
    /\ planner_calls = 2
    /\ handler_calls = <<1>>

(***************************************************************************)
(* Properties of _parse_tool_call and _extract_tool_calls (ParseSpec).     *)
(***************************************************************************)
\* How many of the positions from .. to of a text hold the character c.
Count(text, from, to, c) == Cardinality({i \in from..to : text[i] = c})

\* The position at which the parenthesis depth, counted from the '(' at
\* position open, is first back at zero; 0 when it never is.
ClosePos(text, open) ==
    LET zero == {i \in open..Len(text) :
                    Count(text, open, i, "(") = Count(text, open, i, ")")}
    IN  IF zero = {} THEN 0 ELSE MinOf(zero)

\* The text begins with a name that is followed by '('.
HasName(text) ==
    /\ WordRunEnd(text, 1) > 1
    /\ WordRunEnd(text, 1) <= Len(text)
    /\ text[WordRunEnd(text, 1)] = "("

\* C14: _parse_tool_call returns an error whenever the text between the outer
\* parentheses is not empty and no key=quoted-value pair matches in it; it
\* returns an empty argument map without error only when that text is empty.
C14_UnparsedBodyIsError ==
    (plan_pc = "parsed" /\ HasName(task_string)
        /\ ClosePos(task_string, WordRunEnd(task_string, 1)) # 0) =>
       LET open == WordRunEnd(task_string, 1)
           body == Strip(Slice(task_string, open + 1, ClosePos(task_string, open)))
       IN  /\ (body # <<>> /\ \A i \in 1..Len(body) : ~ArgMatchAt(body, i).ok) =>
                  parsed_tool.error # None
           /\ (parsed_tool.error = None /\ DOMAIN parsed_tool.args = {}) => body = <<>>

\* C15: the argument body is the text between the first '(' and the ')' at
\* which the parenthesis depth is first back at zero, so balanced parentheses
\* inside a value do not end it early: the result is that of the argument
\* loop on exactly that text; the mismatched-parentheses error is returned
\* exactly when the depth never returns to zero.
C15_BodyEndsAtMatchingParen ==
    (plan_pc = "parsed" /\ HasName(task_string)) =>
       LET open     == WordRunEnd(task_string, 1)
           closing  == ClosePos(task_string, open)
           expected == ParseArgs(Strip(Slice(task_string, open + 1, closing)), 1, <<>>)
       IN  /\ parsed_tool.error = "Mismatched parentheses" <=> closing = 0
           /\ closing # 0 =>
                 /\ parsed_tool.error = expected.error
                 /\ expected.error = None =>
                       /\ parsed_tool.args = expected.args
                       /\ parsed_tool.name = Join(Slice(task_string, 1, open))

C15_Witness ==
    /\ plan_pc = "parsed"
    /\ task_string = <<"run_command", "(", "x", "=", SQ, "a", "(", "b", ")", SQ, ",", " ",
                       "command", "=", DQ, "ls", DQ, ")">>
    /\ parsed_tool = [error |-> None, name |-> "run_command",
                      args |-> [x |-> <<"a", "(", "b", ")">>, command |-> <<"ls">>]]

\* C16: round trip.  The call string built from a name and N pairs with
\* distinct keys, each value written in any of the four quoting styles,
\* parses back to that name and exactly those N pairs with the original
\* values.
C16_RoundTrip ==
    plan_pc = "parsed" =>
       \A pairs \in PairSeqs :
          task_string = FormatCall("run_command", pairs) =>
             /\ parsed_tool.error = None
             /\ parsed_tool.name = "run_command"
             /\ DOMAIN parsed_tool.args = {pairs[i].key : i \in 1..Len(pairs)}
             /\ \A i \in 1..Len(pairs) : parsed_tool.args[pairs[i].key] = pairs[i].value

\* The calls among the segments of a planner text.
CallSegments == {SegCall, SegParens, SegNested}
IsCallSegment(segment) == segment \in CallSegments

\* C17: for a text of K well-balanced recognised calls with prose between
\* them (prose with a stray ')' and calls of unrecognised names included),
\* _extract_tool_calls returns exactly those K calls, each in full, in the
\* order of the text.
C17_ExtractsBalancedCallsInOrder ==
    plan_pc = "extracted" =>
       \A q \in SegmentSeqs :
          (plan = Concat(q) /\ SegUnmatched \notin Range(q)) =>
             /\ original_steps = SelectSeq(q, IsCallSegment)
             /\ warnings = <<>>

C17_Witness ==
    /\ plan_pc = "extracted"
    /\ plan = Concat(<<SegParens, SegProse, SegNested>>)
    /\ original_steps = <<SegParens, SegNested>>

\* A recognised name followed by '(' stands at position i.
IsCallAt(text, i) ==
    i < Len(text) /\ text[i] \in ToolPatternNames /\ text[i + 1] = "("

\* Position i lies inside one of the extracted calls.
InExtractedCall(i) ==
    \E k \in 1..Len(tool_calls) :
       tool_calls[k].start_index <= i /\ i < tool_calls[k].end_index

\* C18: a recognised name followed by a '(' whose depth never returns to zero
\* gets a warning and yields nothing; extraction still returns, and every
\* well-formed recognised call later in the text is extracted (in full when
\* it is not inside another call's span): the scan resumed right after the
\* unmatched '('.
C18_UnmatchedCallIsSkipped ==
    plan_pc = "extracted" =>
       /\ \A i \in 1..Len(plan) :
             (IsCallAt(plan, i) /\ ClosePos(plan, i + 1) = 0 /\ ~InExtractedCall(i)) =>
                /\ i \in Range(warnings)
                /\ \A k \in 1..Len(tool_calls) : tool_calls[k].start_index # i
                /\ \A j \in (i + 1)..Len(plan) :
                      (IsCallAt(plan, j) /\ ClosePos(plan, j + 1) # 0) =>
                         /\ InExtractedCall(j)
                         /\ (\A h \in (i + 1)..(j - 1) :
                                ~(IsCallAt(plan, h) /\ ClosePos(plan, h + 1) > j)) =>
                               \E k \in 1..Len(tool_calls) :
                                  /\ tool_calls[k].start_index = j
                                  /\ tool_calls[k].end_index = ClosePos(plan, j + 1) + 1
       /\ \A w \in Range(warnings) : IsCallAt(plan, w) /\ ClosePos(plan, w + 1) = 0
       /\ warnings # <<>> => last_status = "Warning: Could not find matching parenthesis"

C18_Witness ==
    /\ plan_pc = "extracted"
    /\ plan = Concat(<<SegUnmatched, SegCall, SegNested>>)
    /\ warnings = <<1>>
    /\ original_steps = <<SegCall, SegNested>>

\* C19: for every text, what _extract_tool_calls returns are substrings of the
\* text, each beginning with a recognised name followed by '(', with strictly
\* increasing start offsets and no overlap: a recognised call inside another
\* call's span is not extracted separately.
C19_ExtractedSpansOrdered ==
    plan_pc = "extracted" =>
       /\ Len(original_steps) = Len(tool_calls)
       /\ \A k \in 1..Len(tool_calls) :
             LET span == tool_calls[k]
             IN  /\ 1 <= span.start_index
                 /\ span.start_index < span.end_index
                 /\ span.end_index <= Len(plan) + 1
                 /\ IsCallAt(plan, span.start_index)
                 /\ original_steps[k] = Slice(plan, span.start_index, span.end_index)
                 /\ k > 1 => tool_calls[k - 1].end_index <= span.start_index

C19_Witness ==
    /\ plan_pc = "extracted"
    /\ plan = Concat(<<SegNested, SegCall>>)
    /\ tool_calls = <<[start_index |-> 1, end_index |-> 12],
                      [start_index |-> 12, end_index |-> 20]>>

(***************************************************************************)
(* Properties of one attempt and of the correction (PlanSpec).             *)
(***************************************************************************)
\* The letters E, R, R, O, R in either case and a colon, from position i on.
MarkerAt(text, i) ==
    /\ i + 5 <= Len(text)
    /\ text[i] \in {"E", "e"}
    /\ text[i + 1] \in {"R", "r"}
    /\ text[i + 2] \in {"R", "r"}
    /\ text[i + 3] \in {"O", "o"}
    /\ text[i + 4] \in {"R", "r"}
    /\ text[i + 5] = ":"

HoldsMarker(text) == \E i \in 1..Len(text) : MarkerAt(text, i)

\* C21: an attempt is recorded as succeeded exactly when its handler was
\* called, raised nothing and returned a text without 'ERROR:' in any mix of
\* cases; every other attempt is a failed one and goes to the correction.
C21_SuccessCriterion ==
    [][(plan_pc = "attempt" /\ attempts' # attempts) =>
          LET good == /\ handler_calls' # handler_calls
                      /\ ~raw_result'.raised
                      /\ ~HoldsMarker(raw_result'.text)
          IN  /\ good =>
                    /\ step_succeeded'
                    /\ succeeded_at' = succeeded_at \cup {step_index + 1}
                    /\ Len(execution_history') = Len(execution_history) + 1
                    /\ plan_pc' = "inner"
              /\ ~good =>
                    /\ ~step_succeeded'
                    /\ succeeded_at' = succeeded_at
                    /\ execution_history' = execution_history
                    /\ plan_pc' = "correct"
      ]_vars

\* A step succeeded with the text "error", then a step failed with "Error: x".
C21_Witness ==
    /\ plan_pc = "correct"
    /\ raw_result = [raised |-> FALSE, text |-> ErrorMixedText]
    /\ Len(execution_history) = 1
    /\ execution_history[1].result = NoColonText

\* An answer of the planner that holds the call in a fenced block.
FencedBlock(call) ==
    <<" ">> \o Fence \o <<"python", NL>> \o call \o <<NL>> \o Fence \o <<NL>>

AttemptEnd(i) ==
    \/ events[i] = "handler"
    \/ events[i] = "parse" /\ (i = Len(events) \/ events[i + 1] # "handler")

\* C23: each parse comes right after an 'Executing' or 'Re-executing' status,
\* each handler call right after its parse, and what follows an attempt is at
\* once a 'Succeeded' status or the self-correction status.
C23_AttemptBracketedByStatus ==
    \A i \in 1..Len(events) :
       /\ events[i] = "parse" =>
             /\ i > 1
             /\ events[i - 1] \in {"status: Executing Step", "status: Re-executing Step"}
       /\ events[i] = "handler" => i > 1 /\ events[i - 1] = "parse"
       /\ (AttemptEnd(i) /\ i < Len(events)) =>
             events[i + 1] \in {"status: Step Succeeded",
                                "status: Attempting self-correction"}

C23_Witness ==
    /\ plan_pc = "done"
    /\ \E i, j, k \in 1..Len(events) :
          /\ events[i] = "status: Step Succeeded"
          /\ events[j] = "status: Attempting self-correction"
          /\ events[k] = "status: Re-executing Step"

\* C24: the execution history only grows, by one entry at a time and at its
\* end; an entry is appended exactly by an attempt that succeeds, so the
\* history has one entry per succeeded step.
C24_HistoryAppendOnly ==
    [][ /\ IsPrefix(execution_history, execution_history')
        /\ Len(execution_history') <= Len(execution_history) + 1
        /\ Len(execution_history') = Len(execution_history) + 1
              <=> (attempts' # attempts /\ step_succeeded')
        /\ Len(execution_history') = Cardinality(succeeded_at')
      ]_vars

\* Two steps succeeded, the first at its second attempt.
C24_Witness ==
    /\ Len(execution_history) = 2
    /\ attempts = <<2, 1>>
    /\ succeeded_at = {1, 2}
    /\ execution_history[1].step = 1
    /\ execution_history[2].step = 2

(***************************************************************************)
(* Properties of execute_task_in_workspace as a whole (PlanSpec).          *)
(***************************************************************************)
TaskReturned == plan_pc \in {"done", "done_fatal"}

\* C28: when execute_task_in_workspace has returned, after a completed plan
\* or a fatal one, no workspace is active, the registry holds no terminal and
\* every session that was constructed has been closed.
C28_TaskLeavesNoWorkspace ==
    TaskReturned =>
       /\ _WORKSPACE_INSTANCE = 0
       /\ DOMAIN terminals = {}
       /\ \A s \in Sessions : ~is_running[s] /\ closes[s].calls >= 1

\* A fatal run that had created a second terminal.
C28_Witness ==
    /\ plan_pc = "done_fatal"
    /\ Cardinality(Sessions) = 2
    /\ _WORKSPACE_INSTANCE = 0
    /\ \A s \in Sessions : ~is_running[s]

\* C29: once a handler of the run has found the process of its session
\* terminated, the run makes no further attempt and does not end as
\* completed; and no step of the run starts a session under the name of a
\* session whose process has terminated.
C29_DeadSessionIsFatal ==
    [][ /\ dead_session_seen =>
              /\ attempts' = attempts
              /\ plan_pc' \notin {"returned", "finally", "done"}
        /\ \A s \in DOMAIN is_running' \ DOMAIN is_running :
           \A t \in DOMAIN is_running :
              process[t] = "exited" => owner'[s].name # owner[t].name
      ]_vars

\* C30: no command written to the stdin of a session starts with the name of
\* an interactive shell.
C30_InteractiveShellRejected ==
    \A s \in Sessions : \A i \in 1..Len(stdin[s]) :
       command_start(stdin[s][i]) \notin forbidden_commands

(***************************************************************************)
(* Producers of a session's output queue (RunSpec).                        *)
(***************************************************************************)
\* Lines the child process can print on stdout or stderr.
PipeLines == {OutputOf(c) : c \in Commands} \cup {SentinelLine}

\* C26: every item of a session's output queue, and every line of a run's
\* result, is a line read from the child's stdout or stderr: nothing is put on
\* the queue by the thread that calls run, start_background or close.
C26_OnlyReaderEnqueues ==
    /\ \A s \in Sessions : \A i \in 1..Len(output_queue[s]) :
          output_queue[s][i] \in PipeLines
    /\ \A i \in 1..Len(output_lines) : output_lines[i] \in PipeLines
    /\ ret.result = "output" =>
          \A i \in 1..Len(ret.lines) : ret.lines[i] \in PipeLines

(***************************************************************************)
(* Containment of write_file (FileSpec).                                   *)
(***************************************************************************)
\* The path is the base directory or lies below it.
Inside(path) ==
    path = base_directory \/ StartsWith(path, base_directory \o <<Sep>>)

\* C27: a write_file call whose resolved path is not the base directory or
\* below it returns the access error and creates no file and no directory;
\* a call with a relative path that resolves to a place below the base
\* directory, where no file or directory is in the way, writes the file and
\* creates the directories above it; so no file ever exists outside the base
\* directory.
C27_WriteConfined ==
    [][ LET target == abspath(path_join(base_directory, file_path'))
        IN  /\ ~Inside(target) =>
                  /\ write_file_result' = "ERROR: outside the allowed workspace"
                  /\ files' = files
                  /\ directories' = directories
            /\ (/\ Inside(target)
                /\ ~StartsWith(file_path', <<Sep>>)
                /\ target \notin directories
                /\ Ancestors(dirname(target)) \cap files = {}) =>
                  /\ write_file_result' = "Successfully wrote"
                  /\ target \in files'
                  /\ Ancestors(dirname(target)) \subseteq directories'
            /\ \A f \in files' : Inside(f)
      ]_vars

(***************************************************************************)
(* Consumers of a session's output queue (UiSpec).                         *)
(***************************************************************************)
\* C25: no two threads are inside run_command on the same session at the same
\* time, whatever queries the UI accepted.
C25_OneRunPerSession ==
    \A i, j \in DOMAIN threads :
       (i # j /\ threads[i].pc = "run" /\ threads[j].pc = "run") =>
          threads[i].sid # threads[j].sid

(***************************************************************************)
(* Termination of _extract_tool_calls (ScanSpec).                          *)
(***************************************************************************)
\* C31: every pass of the outer loop of _extract_tool_calls either ends the
\* scan or moves the cursor strictly forward, to at most one past the end of
\* the text; the scan of every text ends, with the calls and warnings the
\* function computes.
C31_ExtractTerminates ==
    /\ [][plan_pc = "scan" =>
             \/ plan_pc' = "scanned"
             \/ scan_cursor < scan_cursor' /\ scan_cursor' <= Len(plan) + 1]_vars
    /\ [](plan_pc = "scanned" =>
             /\ tool_calls = ExtractLoop(plan, 1, <<>>, <<>>).calls
             /\ warnings = ExtractLoop(plan, 1, <<>>, <<>>).warnings
             /\ original_steps = _extract_tool_calls(plan))
    /\ <>(plan_pc = "scanned")

\* A scan that met an unmatched call, then extracted a call, and ended by the
\* search finding nothing in the rest of the text.
C31_Witness ==
    /\ plan_pc = "scanned"
    /\ warnings # <<>>
    /\ tool_calls # <<>>
    /\ warnings[1] < tool_calls[1].start_index
    /\ scan_cursor <= Len(plan)

(***************************************************************************)
(* The idle path of run_command (RunSpec).                                 *)
(***************************************************************************)
\* The run returns its collected lines.
RunReturns == pc = "collect" /\ pc' = "idle" /\ ret'.result = "output"

\* C32: every line a run receives restarts its idle window; a run is never
\* still collecting once a queue.get has timed out past the window, so it
\* returns at the first timeout after the window has passed; and a run that
\* received nothing but its own echo returns within the idle window plus one
\* queue.get timeout of its start.
C32_IdlePathReturns ==
    [][ /\ (pc = "collect" /\ pc' = "collect" /\ output_lines' # output_lines) =>
              idle' = 0
        /\ pc' = "collect" => idle' * GetTimeout <= IdleWindow
        /\ RunReturns =>
              /\ output_queue[cur.sid] = <<>>
              /\ idle * GetTimeout <= IdleWindow
              /\ (idle + 1) * GetTimeout <= IdleWindow + GetTimeout
        /\ (RunReturns /\ Len(output_lines) <= 1) =>
              (elapsed + 1) * GetTimeout <= IdleWindow + GetTimeout
      ]_vars

\* A run of a command that printed nothing has returned its echo alone, after
\* an earlier run had returned output.
C32_Witness ==
    /\ pc = "idle"
    /\ ret.op = "run_command"
    /\ ret.result = "output"
    /\ ret.lines = <<EchoLine("echo again")>>

(***************************************************************************)
(* Runs that end by raising (PlanSpec).                                    *)
(***************************************************************************)
\* No name of the tool pattern is followed by an opening parenthesis.
NoRecognizedCall(text) ==
    \A i \in 1..Len(text) :
       text[i] \in ToolPatternNames => (i = Len(text) \/ text[i + 1] # "(")

\* C33: when the planner's text holds no recognised call, or none that is
\* closed, _execute_plan raises once the text has been scanned: no attempt is
\* made, no handler called, no remediation requested, the history stays empty
\* and the task ends as fatal.
C33_EmptyPlanRaises ==
    (plan_pc \notin {"task", "start"}
        /\ (NoRecognizedCall(plan) \/ original_steps = <<>>)) =>
       /\ plan_pc \in {"raised", "finally_fatal", "done_fatal"}
       /\ raw_error = "Planner returned a plan with no executable steps."
       /\ \A i \in DOMAIN attempts : attempts[i] = 0
       /\ \A i \in DOMAIN handler_calls : handler_calls[i] = 0
       /\ planner_calls = 0
       /\ execution_history = <<>>
       /\ \A i \in 1..Len(events) : events[i] \notin {"parse", "handler"}

\* A text of prose and an unrecognised call ended the task as fatal.
C33_Witness ==
    /\ plan_pc = "done_fatal"
    /\ plan # <<>>
    /\ NoRecognizedCall(plan)
    /\ original_steps = <<>>
    /\ last_status = "Closing workspace"

\* The run has raised out of _execute_plan.
Aborted == plan_pc \in {"raised", "finally_fatal", "done_fatal"}

\* C34: a remediation whose answer is empty or blank raises at once, whatever
\* retry budget is left; after a raise no attempt is made, no handler or
\* planner called and no plan position entered.
C34_EmptyCorrectionAborts ==
    [][ /\ (plan_pc = "correct" /\ planner_calls' # planner_calls
               /\ \A i \in 1..Len(corrected_step_raw') : IsSpace(corrected_step_raw'[i])) =>
              /\ plan_pc' = "raised"
              /\ raw_error' = "Debugger failed to provide a corrected step. Aborting."
              /\ task_string' = task_string
        /\ Aborted =>
              /\ Aborted'
              /\ attempts' = attempts
              /\ handler_calls' = handler_calls
              /\ planner_calls' = planner_calls
              /\ step_index' = step_index
              /\ execution_history' = execution_history
      ]_vars

\* The first remediation of the first of two steps got an empty answer: one
\* attempt in all, two retries unused, the second step never tried.
C34_Witness ==
    /\ plan_pc = "done_fatal"
    /\ raw_error = "Debugger failed to provide a corrected step. Aborting."
    /\ attempts = <<1, 0>>
    /\ step_retry_count = 1
    /\ step_index = 0

(***************************************************************************)
(* Properties of execute_project (ProjectSpec).                            *)
(***************************************************************************)
\* Results of a syntax check that report a failure.
FailingOutputs == {SyntaxErrorText, TracebackText, NotRunningText}

\* Component k had a syntax check that reported no failure.
Passed(k) == \E n \in 1..Len(tried[k]) : tried[k][n] \notin FailingOutputs

\* C35: the accepted script changes only to the candidate whose syntax check
\* has just come back clean; no component is checked more than three times; a
\* component is tried only after every earlier one passed; a component left
\* without a passing check makes the project raise, and the application is
\* launched only when every component passed.
C35_ComponentLoop ==
    /\ [][ /\ (proj_pc # "project" /\ full_code' # full_code) =>
                 /\ full_code' = refined_code'
                 /\ main_py' = refined_code'
                 /\ syntax_result' \notin FailingOutputs
                 /\ tried'[component + 1] = Append(tried[component + 1], syntax_result')
           /\ (proj_pc = "component_end" /\ proj_pc' # proj_pc /\ ~Passed(component + 1)) =>
                 /\ proj_pc' = "raised"
                 /\ tried' = tried
         ]_vars
    /\ [](\A k \in DOMAIN tried :
             /\ Len(tried[k]) <= 3
             /\ tried[k] # <<>> => \A j \in 1..(k - 1) : Passed(j))
    /\ [](launched => \A k \in 1..plan_steps : Passed(k))
    /\ []((proj_pc = "returned" /\ \E k \in DOMAIN tried : ~Passed(k)) =>
             /\ ~launched
             /\ project_result = None)

\* Two components: the first passed at its third check, the second at its
\* second, and the application was launched with the last candidate.
C35_Witness ==
    /\ proj_pc = "returned"
    /\ launched
    /\ plan_steps = 2
    /\ tried = <<<<SyntaxErrorText, TracebackText, <<>>>>, <<TracebackText, <<>>>>>>
    /\ full_code = "script_b"
    /\ main_py = "script_b"

\* The first component failed its three checks: the project returned None,
\* the second component untried, the script still the initial one.
C35_WitnessRaise ==
    /\ proj_pc = "returned"
    /\ ~launched
    /\ plan_steps = 2
    /\ Len(tried[1]) = 3
    /\ tried[2] = <<>>
    /\ full_code = InitialScript

(***************************************************************************)
(* Attribution of output to runs (RunSpec).                                *)
(***************************************************************************)
\* C36: the result a run of command c returns holds no line printed for
\* another command sent to the same session.
C36_OnlyOwnOutput ==
    [][(pc = "collect" /\ pc' = "idle" /\ ret'.op = "run_command"
           /\ ret'.result = "output") =>
          \A c \in Commands \ {cur.command} : OutputOf(c) \notin Range(ret'.lines)
      ]_vars

(***************************************************************************)
(* Admission of queries (UiSpec).                                          *)
(***************************************************************************)
\* The task threads that have not finished.
Running == {i \in DOMAIN threads : threads[i].pc # "done"}

\* C37: at most one task thread runs at a time, and while one runs
\* is_thinking is true, so that process_user_query rejects every query.
C37_OneTaskAtATime ==
    /\ Cardinality(Running) <= 1
    /\ Running # {} => is_thinking

(***************************************************************************)
(* Step numbers and remediation requests of _execute_plan (PlanSpec).      *)
(***************************************************************************)
\* C38: the step number given to a plan position when the executor enters it
\* is greater than the number of every position entered before.
C38_StepNumbersIncrease ==
    [][(plan_pc = "outer" /\ plan_pc' = "inner") => step_number' > step_number]_vars

\* C39: whenever the planner has been asked for a corrected step and has
\* given one, the retry budget of the step allows the attempt that executes
\* it.
C39_CorrectedStepIsExecuted ==
    [][(plan_pc = "correct" /\ planner_calls' # planner_calls /\ plan_pc' = "inner") =>
          step_retry_count' < max_retries]_vars

====
